---- MODULE Spec2Model ----
(***************************************************************************)
(* Model of the lyrics core of lrcget (src-tauri/src/lyrics.rs and the     *)
(* lrclib client it calls): the text similarity scorer, candidate ranking, *)
(* the three-tier resolution of download_lyrics_for_track and the sidecar  *)
(* writer.                                                                 *)
(*                                                                         *)
(* Strings that the code inspects character by character (titles, remote   *)
(* track names, the audio file's extension) are sequences of one-character *)
(* strings.  Lyrics texts are sequences of tokens ("TAG" a leading         *)
(* bracketed tag such as [00:01.00], "W" a word, "NL" a line break); the   *)
(* empty text is <<>>.  Durations and the tolerance are integers (seconds):*)
(* the code only compares |d - duration| with the tolerance.  A similarity *)
(* is the exact fraction <<numerator, denominator>>.                       *)
(***************************************************************************)
EXTENDS Integers, Sequences, FiniteSets, TLC

VARIABLES
    sim,        \* text_similarity: the two inputs and the values returned
    rank,       \* pick_best_match: the inputs and the winner returned
    pc,         \* download_lyrics_for_track: position of the call
    cfg,        \* its configuration arguments
    track,      \* the PersistentTrack it is called for
    requests,   \* remote requests issued so far, in order
    inflight,   \* remote requests awaiting their reply
    exactRes,   \* what the exact lookup returned
    fieldSel,   \* winner of the ranking of the field-based search
    fuzzySel,   \* winner of the ranking of the free-text search
    reply,      \* the search results the call ended on
    result,     \* value returned by the call
    txt,        \* the .txt sidecar of the track
    lrc,        \* the .lrc sidecar of the track
    audio,      \* lyrics embedded in the audio file
    calls,      \* save_* calls and embed attempts of the last writer operation
    ops,        \* number of writer operations run so far
    applied,    \* the last writer operation: its name and arguments
    net,        \* one call of a remote operation: its sends and sleeps
    pow,        \* solve_challenge: the challenge and the nonce returned
    flow,       \* publish_lyrics / flag_lyrics: the steps of one command
    db,         \* the tracks table of the catalog
    pair,       \* two tracks with writer operations running concurrently
    cmd,        \* download_lyrics: position and return value of the command
    lib         \* the shared connection slot and the commands using it

vars == <<sim, rank, pc, cfg, track, requests, inflight, exactRes, fieldSel,
          fuzzySel, reply, result, txt, lrc, audio, calls, ops, applied, net,
          pow, flow, db, pair, cmd, lib>>

callVars == <<pc, cfg, requests, inflight, exactRes, fieldSel, fuzzySel, reply>>

fileVars == <<txt, lrc, audio, calls, ops, applied>>

restVars == <<pow, flow, db, pair, cmd, lib>>

coreVars == <<sim, rank, net, callVars, track, result, fileVars>>

----------------------------------------------------------------------------
(* Bounds *)

MaxLen == 3        \* longest string given to text_similarity

----------------------------------------------------------------------------
(* Characters and strings *)

SimAlphabet == {"a", "A", "b", " ", "!"}

SimStrings == UNION {[1..n -> SimAlphabet] : n \in 0..MaxLen}

\* char::to_lowercase on the characters of the model's alphabet
to_lowercase_char(c) ==
    CASE c = "A" -> "a"
      [] c = "B" -> "b"
      [] c = "C" -> "c"
      [] c = "D" -> "d"
      [] c = "M" -> "m"
      [] c = "P" -> "p"
      [] c = "F" -> "f"
      [] c = "L" -> "l"
      [] OTHER -> c

to_lowercase(s) == [i \in 1..Len(s) |-> to_lowercase_char(s[i])]

is_whitespace(c) == c \in {" ", "\t"}

is_alphanumeric(c) ==
    c \in {"a", "b", "c", "d", "f", "l", "m", "p", "3",
           "A", "B", "C", "D", "F", "L", "M", "P"}

RECURSIVE FilterChars(_)
FilterChars(s) ==
    IF s = <<>> THEN <<>>
    ELSE IF is_alphanumeric(Head(s)) \/ is_whitespace(Head(s))
         THEN <<Head(s)>> \o FilterChars(Tail(s))
         ELSE FilterChars(Tail(s))

\* str::split_whitespace: the maximal runs of non-whitespace characters.
\* cur is the run being read.
RECURSIVE SplitFrom(_, _)
SplitFrom(s, cur) ==
    IF s = <<>> THEN (IF cur = <<>> THEN <<>> ELSE <<cur>>)
    ELSE IF is_whitespace(Head(s))
         THEN (IF cur = <<>> THEN <<>> ELSE <<cur>>) \o SplitFrom(Tail(s), <<>>)
         ELSE SplitFrom(Tail(s), Append(cur, Head(s)))

split_whitespace(s) == SplitFrom(s, <<>>)

\* [&str]::join(" ")
RECURSIVE join_space(_)
join_space(ws) ==
    IF ws = <<>> THEN <<>>
    ELSE IF Len(ws) = 1 THEN ws[1]
    ELSE ws[1] \o <<" ">> \o join_space(Tail(ws))

normalize_text_nolower(s) == join_space(split_whitespace(FilterChars(s)))

normalize_text(s) == join_space(split_whitespace(FilterChars(to_lowercase(s))))

SeqRange(q) == {q[i] : i \in 1..Len(q)}

text_similarity_sum(a, b) ==
    LET a_norm == normalize_text(a)
        b_norm == normalize_text(b)
        a_words == SeqRange(split_whitespace(a_norm))
        b_words == SeqRange(split_whitespace(b_norm))
    IN  IF a_norm = <<>> /\ b_norm = <<>> THEN <<1, 1>>
        ELSE IF a_norm = <<>> \/ b_norm = <<>> THEN <<0, 1>>
        ELSE <<Cardinality(a_words \cap b_words),
               Cardinality(a_words) + Cardinality(b_words)>>

text_similarity_left(a, b) ==
    LET a_norm == normalize_text(a)
        b_norm == normalize_text(b)
        a_words == SeqRange(split_whitespace(a_norm))
        b_words == SeqRange(split_whitespace(b_norm))
    IN  IF a_norm = <<>> /\ b_norm = <<>> THEN <<1, 1>>
        ELSE IF a_norm = <<>> \/ b_norm = <<>> THEN <<0, 1>>
        ELSE <<Cardinality(a_words \cap b_words), Cardinality(a_words)>>

\* The value returned is the fraction intersection/union, <<1, 1>> for 1.0
\* and <<0, 1>> for 0.0.
text_similarity(a, b) ==
    LET a_norm == normalize_text(a)
        b_norm == normalize_text(b)
        a_words == SeqRange(split_whitespace(a_norm))
        b_words == SeqRange(split_whitespace(b_norm))
        intersection == Cardinality(a_words \cap b_words)
        union == Cardinality(a_words \cup b_words)
    IN  IF a_norm = <<>> /\ b_norm = <<>> THEN <<1, 1>>
        ELSE IF a_norm = <<>> \/ b_norm = <<>> THEN <<0, 1>>
        ELSE IF union = 0 THEN <<0, 1>> ELSE <<intersection, union>>

----------------------------------------------------------------------------
(* Lyrics texts, Option values, search candidates.                         *)
(* An Option is <<>> for None and <<v>> for Some(v).                       *)

None == <<>>

Some(v) == <<v>>

is_some(o) == o # <<>>

\* utils::strip_timestamp: RE_TIMESTAMP removes one bracketed tag (and the
\* blanks after it) at the start of every line.
IsTag(tok) == tok \in {"TAG", "[au: instrumental]"}

RECURSIVE StripFrom(_, _)
StripFrom(text, lineStart) ==
    IF text = <<>> THEN <<>>
    ELSE IF Head(text) = "NL" THEN <<"NL">> \o StripFrom(Tail(text), TRUE)
    ELSE IF lineStart /\ IsTag(Head(text)) THEN StripFrom(Tail(text), FALSE)
    ELSE <<Head(text)>> \o StripFrom(Tail(text), FALSE)

strip_timestamp(synced_lyrics) == StripFrom(synced_lyrics, TRUE)

\* lrclib::get::Response
ResponseNone == [kind |-> "None", synced |-> <<>>, plain |-> <<>>]

IsInstrumental == [kind |-> "IsInstrumental", synced |-> <<>>, plain |-> <<>>]

SyncedLyrics(synced, plain) == [kind |-> "SyncedLyrics", synced |-> synced, plain |-> plain]

UnsyncedLyrics(plain) == [kind |-> "UnsyncedLyrics", synced |-> <<>>, plain |-> plain]

\* search::SearchItem; artist_name and album_name are never read and left out.
SearchItem(id, name, duration, instrumental, plain_lyrics, synced_lyrics) ==
    [id |-> id, name |-> name, duration |-> duration, instrumental |-> instrumental,
     plain_lyrics |-> plain_lyrics, synced_lyrics |-> synced_lyrics]

search_item_to_response_plainfirst(item) ==
    IF is_some(item.plain_lyrics) THEN UnsyncedLyrics(item.plain_lyrics[1])
    ELSE IF is_some(item.synced_lyrics)
         THEN SyncedLyrics(item.synced_lyrics[1], strip_timestamp(item.synced_lyrics[1]))
    ELSE IF item.instrumental THEN IsInstrumental
    ELSE ResponseNone

search_item_to_response(item) ==
    IF is_some(item.synced_lyrics)
    THEN LET synced == item.synced_lyrics[1]
             plain == IF is_some(item.plain_lyrics) THEN item.plain_lyrics[1]
                      ELSE strip_timestamp(synced)
         IN  SyncedLyrics(synced, plain)
    ELSE IF is_some(item.plain_lyrics) THEN UnsyncedLyrics(item.plain_lyrics[1])
    ELSE IF item.instrumental THEN IsInstrumental
    ELSE ResponseNone

----------------------------------------------------------------------------
(* Candidate ranking: pick_best_match *)

abs(x) == IF x < 0 THEN -x ELSE x

\* stands for f64::MAX: larger than every distance
F64_MAX == 1000000

\* the closure given to filter
in_window_open(item, duration, duration_tolerance) ==
    IF is_some(item.duration)
    THEN abs(item.duration[1] - duration) < duration_tolerance
    ELSE FALSE

in_window(item, duration, duration_tolerance) ==
    IF is_some(item.duration)
    THEN abs(item.duration[1] - duration) <= duration_tolerance
    ELSE FALSE

RECURSIVE filter_window(_, _, _)
filter_window(results, duration, duration_tolerance) ==
    IF results = <<>> THEN <<>>
    ELSE (IF in_window(Head(results), duration, duration_tolerance)
          THEN <<Head(results)>> ELSE <<>>)
         \o filter_window(Tail(results), duration, duration_tolerance)

score(item) ==
    IF is_some(item.synced_lyrics) THEN 0
    ELSE IF is_some(item.plain_lyrics) THEN 1
    ELSE IF item.instrumental THEN 2
    ELSE 3

cmp(x, y) == IF x < y THEN "Less" ELSE IF x = y THEN "Equal" ELSE "Greater"

distance(item, duration) ==
    IF is_some(item.duration) THEN abs(item.duration[1] - duration) ELSE F64_MAX

\* the closure given to min_by
compare_distance_first(a, b, duration) ==
    LET dist_cmp == cmp(distance(a, duration), distance(b, duration))
    IN  IF dist_cmp # "Equal" THEN dist_cmp
        ELSE cmp(score(a), score(b))

compare(a, b, duration) ==
    LET score_cmp == cmp(score(a), score(b))
    IN  IF score_cmp # "Equal" THEN score_cmp
        ELSE cmp(distance(a, duration), distance(b, duration))

\* Iterator::min_by: reduce keeping the earlier element unless the later
\* one compares strictly smaller
RECURSIVE min_by(_, _, _)
min_by(acc, rest, duration) ==
    IF rest = <<>> THEN acc
    ELSE min_by(IF compare(acc, Head(rest), duration) = "Greater"
                THEN Head(rest) ELSE acc,
                Tail(rest), duration)

pick_best_match_last_minimum(results, duration, duration_tolerance) ==
    LET kept == filter_window(results, duration, duration_tolerance)
        least(i) == \A j \in 1..Len(kept) : compare(kept[i], kept[j], duration) # "Greater"
    IN  IF kept = <<>> THEN None
        ELSE Some(kept[CHOOSE i \in 1..Len(kept) :
                          least(i) /\ \A j \in (i + 1)..Len(kept) : ~least(j)])

pick_best_match(results, duration, duration_tolerance) ==
    LET kept == filter_window(results, duration, duration_tolerance)
    IN  IF kept = <<>> THEN None
        ELSE Some(min_by(Head(kept), Tail(kept), duration))

----------------------------------------------------------------------------
(* Persistence writer.                                                     *)
(* A file is absent or holds a text; writer tells whether its content was  *)
(* written by this program.  remove_file's result is discarded by the      *)
(* code; it is modelled as removing the file when it exists.  fs::write    *)
(* either succeeds or fails before changing the file (w = "fail"), and the *)
(* caller returns the error with `?`.                                      *)

NoFile == [exists |-> FALSE, content |-> <<>>, writer |-> FALSE]

ForeignFile(text) == [exists |-> TRUE, content |-> text, writer |-> FALSE]

remove_file(f) == NoFile

write_append(f, text) == [exists |-> TRUE, content |-> f.content \o text, writer |-> TRUE]

write(f, text) == [exists |-> TRUE, content |-> text, writer |-> TRUE]

INSTRUMENTAL_MARKER == <<"[au: instrumental]">>

\* A save_* call: the function, its text, the sidecars before and after,
\* and whether it returned Ok.
SaveCall(fn, text, t0, l0, t1, l1, ok) ==
    [fn |-> fn, text |-> text, ok |-> ok,
     pre |-> [txt |-> t0, lrc |-> l0], post |-> [txt |-> t1, lrc |-> l1]]

save_plain_lyrics_keep_lrc(t, l, lyrics, w) ==
    IF lyrics = <<>>
    THEN SaveCall("save_plain_lyrics", lyrics, t, l, remove_file(t), l, TRUE)
    ELSE IF w = "ok"
    THEN SaveCall("save_plain_lyrics", lyrics, t, l, write(t, lyrics), l, TRUE)
    ELSE SaveCall("save_plain_lyrics", lyrics, t, l, t, l, FALSE)

save_plain_lyrics(t, l, lyrics, w) ==
    LET l1 == remove_file(l)
    IN  IF lyrics = <<>>
        THEN SaveCall("save_plain_lyrics", lyrics, t, l, remove_file(t), l1, TRUE)
        ELSE IF w = "ok"
        THEN SaveCall("save_plain_lyrics", lyrics, t, l, write(t, lyrics), l1, TRUE)
        ELSE SaveCall("save_plain_lyrics", lyrics, t, l, t, l1, FALSE)

save_synced_lyrics_always_remove(t, l, lyrics, w) ==
    LET t1 == remove_file(t)
    IN  IF lyrics = <<>>
        THEN SaveCall("save_synced_lyrics", lyrics, t, l, t1, remove_file(l), TRUE)
        ELSE IF w = "ok"
        THEN SaveCall("save_synced_lyrics", lyrics, t, l, t1, write(l, lyrics), TRUE)
        ELSE SaveCall("save_synced_lyrics", lyrics, t, l, t1, l, FALSE)

save_synced_lyrics_keep_txt(t, l, lyrics, w) ==
    IF lyrics = <<>>
    THEN SaveCall("save_synced_lyrics", lyrics, t, l, t, remove_file(l), TRUE)
    ELSE IF w = "ok"
    THEN SaveCall("save_synced_lyrics", lyrics, t, l, t, write(l, lyrics), TRUE)
    ELSE SaveCall("save_synced_lyrics", lyrics, t, l, t, l, FALSE)

save_synced_lyrics(t, l, lyrics, w) ==
    IF lyrics = <<>>
    THEN SaveCall("save_synced_lyrics", lyrics, t, l, t, remove_file(l), TRUE)
    ELSE IF w = "ok"
    THEN SaveCall("save_synced_lyrics", lyrics, t, l, remove_file(t), write(l, lyrics), TRUE)
    ELSE SaveCall("save_synced_lyrics", lyrics, t, l, remove_file(t), l, FALSE)

save_instrumental_keep_txt(t, l, w) ==
    IF w = "ok"
    THEN SaveCall("save_instrumental", INSTRUMENTAL_MARKER, t, l,
                  t, write(remove_file(l), INSTRUMENTAL_MARKER), TRUE)
    ELSE SaveCall("save_instrumental", INSTRUMENTAL_MARKER, t, l,
                  t, remove_file(l), FALSE)

save_instrumental(t, l, w) ==
    IF w = "ok"
    THEN SaveCall("save_instrumental", INSTRUMENTAL_MARKER, t, l,
                  remove_file(t), write(remove_file(l), INSTRUMENTAL_MARKER), TRUE)
    ELSE SaveCall("save_instrumental", INSTRUMENTAL_MARKER, t, l,
                  remove_file(t), remove_file(l), FALSE)

\* str::ends_with
ends_with(s, suffix) ==
    /\ Len(s) >= Len(suffix)
    /\ SubSeq(s, Len(s) - Len(suffix) + 1, Len(s)) = suffix

\* synced_lyrics_to_sylt_vec: the timed lines of an LRC text, one entry
\* <<"ms", words>> for every line that starts with a time tag
RECURSIVE Lines(_, _)
Lines(text, cur) ==
    IF text = <<>> THEN <<cur>>
    ELSE IF Head(text) = "NL" THEN <<cur>> \o Lines(Tail(text), <<>>)
    ELSE Lines(Tail(text), Append(cur, Head(text)))

RECURSIVE TimedLines(_)
TimedLines(ls) ==
    IF ls = <<>> THEN <<>>
    ELSE (IF Head(ls) # <<>> /\ Head(Head(ls)) = "TAG"
          THEN <<<<"ms", Tail(Head(ls))>>>> ELSE <<>>)
         \o TimedLines(Tail(ls))

synced_lyrics_to_sylt_vec(synced_lyrics) == TimedLines(Lines(synced_lyrics, <<>>))

\* The audio file: whether it carries a tag container (ID3v2 tag, Vorbis
\* comments) and the two lyrics entries in it, each an Option.
\* embed_lyrics_mp3: USLT and SYLT frames
embed_lyrics_mp3(a, plain_lyrics, synced_lyrics) ==
    IF ~a.tagged THEN a
    ELSE [a EXCEPT !.plain = IF plain_lyrics # <<>> THEN Some(plain_lyrics) ELSE None,
                   !.synced = IF synced_lyrics # <<>>
                              THEN Some(synced_lyrics_to_sylt_vec(synced_lyrics))
                              ELSE None]

\* embed_lyrics_flac: UNSYNCEDLYRICS and LYRICS comments
embed_lyrics_flac(a, plain_lyrics, synced_lyrics) ==
    IF ~a.tagged THEN a
    ELSE [a EXCEPT !.plain = IF plain_lyrics # <<>> THEN Some(plain_lyrics) ELSE None,
                   !.synced = IF synced_lyrics # <<>> THEN Some(synced_lyrics) ELSE None]

embed_lyrics_any_extension(a, track_path, plain_lyrics, synced_lyrics, e) ==
    IF ends_with(to_lowercase(track_path), <<".", "m", "p", "3">>)
    THEN (IF e = "ok" THEN embed_lyrics_mp3(a, plain_lyrics, synced_lyrics) ELSE a)
    ELSE (IF e = "ok" THEN embed_lyrics_flac(a, plain_lyrics, synced_lyrics) ELSE a)

\* embed_lyrics: e = "fail" is an error of the embedding (open, parse, LRC
\* conversion or save), which is printed and leaves the file as it was.
embed_lyrics(a, track_path, plain_lyrics, synced_lyrics, e) ==
    IF ends_with(to_lowercase(track_path), <<".", "m", "p", "3">>)
    THEN (IF e = "ok" THEN embed_lyrics_mp3(a, plain_lyrics, synced_lyrics) ELSE a)
    ELSE IF ends_with(to_lowercase(track_path), <<".", "f", "l", "a", "c">>)
    THEN (IF e = "ok" THEN embed_lyrics_flac(a, plain_lyrics, synced_lyrics) ELSE a)
    ELSE a

\* An embed_lyrics call as recorded in calls
EmbedCall(plain_lyrics, synced_lyrics, a0, a1, e) ==
    [fn |-> "embed_lyrics", plain |-> plain_lyrics, synced |-> synced_lyrics,
     outcome |-> e, pre |-> a0, post |-> a1]

\* Outcome of a writer operation: the Result returned, the files after it
\* and the calls it made.
Applied(ok, response, t, l, a, cs) ==
    [ok |-> ok, response |-> response, txt |-> t, lrc |-> l, audio |-> a, calls |-> cs]

AfterSave_embed_error_returned(sc, response, a, track_path, plain_lyrics, synced_lyrics, embed, e) ==
    IF ~sc.ok THEN Applied(FALSE, response, sc.post.txt, sc.post.lrc, a, <<sc>>)
    ELSE IF embed
    THEN LET a1 == embed_lyrics(a, track_path, plain_lyrics, synced_lyrics, e)
         IN  Applied(e = "ok", response, sc.post.txt, sc.post.lrc, a1,
                     <<sc, EmbedCall(plain_lyrics, synced_lyrics, a, a1, e)>>)
    ELSE Applied(TRUE, response, sc.post.txt, sc.post.lrc, a, <<sc>>)

\* The tail common to the arms of the writer operations: after the save
\* call sc, return its error or go on to embed.
AfterSave(sc, response, a, track_path, plain_lyrics, synced_lyrics, embed, e) ==
    IF ~sc.ok THEN Applied(FALSE, response, sc.post.txt, sc.post.lrc, a, <<sc>>)
    ELSE IF embed
    THEN LET a1 == embed_lyrics(a, track_path, plain_lyrics, synced_lyrics, e)
         IN  Applied(TRUE, response, sc.post.txt, sc.post.lrc, a1,
                     <<sc, EmbedCall(plain_lyrics, synced_lyrics, a, a1, e)>>)
    ELSE Applied(TRUE, response, sc.post.txt, sc.post.lrc, a, <<sc>>)

\* line 278: the arm of Response::None
apply_none_removes_both(t, l, a, lyrics) ==
    Applied(TRUE, lyrics, remove_file(t), remove_file(l), a, <<>>)

apply_none(t, l, a, lyrics) == Applied(TRUE, lyrics, t, l, a, <<>>)

apply_lyrics_for_track(t, l, a, track_path, lyrics, is_try_embed_lyrics, w, e) ==
    CASE lyrics.kind = "SyncedLyrics" ->
            AfterSave(save_synced_lyrics(t, l, lyrics.synced, w), lyrics, a,
                      track_path, lyrics.plain, lyrics.synced, is_try_embed_lyrics, e)
      [] lyrics.kind = "UnsyncedLyrics" ->
            AfterSave(save_plain_lyrics(t, l, lyrics.plain, w), lyrics, a,
                      track_path, lyrics.plain, <<>>, is_try_embed_lyrics, e)
      [] lyrics.kind = "IsInstrumental" ->
            AfterSave(save_instrumental(t, l, w), lyrics, a,
                      track_path, <<>>, <<>>, FALSE, e)
      [] OTHER -> apply_none(t, l, a, lyrics)

apply_string_lyrics_for_track(t, l, a, track_path, plain_lyrics, synced_lyrics, is_try_embed_lyrics, w1, w2, e) ==
    LET p == save_plain_lyrics(t, l, plain_lyrics, w1)
    IN  IF ~p.ok THEN Applied(FALSE, ResponseNone, p.post.txt, p.post.lrc, a, <<p>>)
        ELSE LET s == save_synced_lyrics(p.post.txt, p.post.lrc, synced_lyrics, w2)
                 r == AfterSave(s, ResponseNone, a, track_path, plain_lyrics,
                                synced_lyrics, is_try_embed_lyrics, e)
             IN  [r EXCEPT !.calls = <<p>> \o r.calls]

----------------------------------------------------------------------------
(* Fuzzy tier: the similarity filter of search_fuzzy_fallback *)

MIN_TITLE_SIMILARITY == <<3, 10>>

\* x >= y for fractions with positive denominators
geq(x, y) == x[1] * y[2] >= y[1] * x[2]

title_sim_absent_passes(title, item) ==
    IF is_some(item.name) THEN text_similarity(title, item.name[1]) ELSE <<1, 1>>

title_sim(title, item) ==
    IF is_some(item.name) THEN text_similarity(title, item.name[1]) ELSE <<0, 1>>

RECURSIVE filter_similar(_, _)
filter_similar(results, title) ==
    IF results = <<>> THEN <<>>
    ELSE (IF geq(title_sim(title, Head(results)), MIN_TITLE_SIMILARITY)
          THEN <<Head(results)>> ELSE <<>>)
         \o filter_similar(Tail(results), title)

----------------------------------------------------------------------------
(* Inputs *)

MaxCands == 2      \* most candidates given to pick_best_match
MaxResults == 1    \* most candidates in one search reply of a resolution
MaxOps == 3        \* writer operations in a row on one track

WithIds(q) == [i \in 1..Len(q) |-> [q[i] EXCEPT !.id = i]]

SeqsUpTo(S, n) == UNION {[1..k -> S] : k \in 0..n}

PlainTexts == {<<>>, <<"W">>}

SyncedTexts == {<<>>, <<"TAG", "W">>}

\* candidates given to the ranking alone: the target duration is 10
RankItems ==
    {SearchItem(0, None, d, i, p, s) :
        d \in {None, Some(8), Some(9), Some(10), Some(11)},
        i \in BOOLEAN,
        p \in {None, Some(<<"W">>)},
        s \in {None, Some(<<"TAG", "W">>)}}

\* candidates of the search replies of a resolution; the track is
\* "a b" of duration 10, so the names have similarity none, 1/4 and 1/3
SearchItems ==
    {SearchItem(0, n, d, i, p, s) :
        n \in {None, Some(<<"a", " ", "c", " ", "d">>), Some(<<"A", " ", "c">>)},
        d \in {Some(11), Some(13)},
        i \in BOOLEAN,
        p \in {None, Some(<<"W">>)},
        s \in {None, Some(<<"TAG", "W">>)}}

\* Result of search::request
SearchOk(items) == [ok |-> TRUE, err |-> "", items |-> items]

SearchErr(err) == [ok |-> FALSE, err |-> err, items |-> <<>>]

SearchOutcomes ==
    {SearchOk(WithIds(q)) : q \in SeqsUpTo(SearchItems, MaxResults)}
        \cup {SearchErr("network"), SearchErr("remote")}

\* Result of lrclib::get::request, the exact lookup
GetOk(response) == [ok |-> TRUE, err |-> "", response |-> response]

GetErr(err) == [ok |-> FALSE, err |-> err, response |-> ResponseNone]

GetOutcomes ==
    {GetOk(r) : r \in {ResponseNone, IsInstrumental, UnsyncedLyrics(<<"W">>),
                       SyncedLyrics(<<"TAG", "W">>, <<"W">>)}}
        \cup {GetErr("network"), GetErr("remote")}

\* Result<(Response, MatchSource)> of download_lyrics_for_track
Pending == [state |-> "pending", response |-> ResponseNone, source |-> "", err |-> ""]

Ok(response, source) == [state |-> "ok", response |-> response, source |-> source, err |-> ""]

Err(err) == [state |-> "err", response |-> ResponseNone, source |-> "", err |-> err]

\* what a tier of the resolution found
NotAsked == [asked |-> FALSE, ok |-> FALSE, item |-> None]

Found(ok, item) == [asked |-> TRUE, ok |-> ok, item |-> item]

Audio(tagged, plain, synced) == [tagged |-> tagged, plain |-> plain, synced |-> synced]

----------------------------------------------------------------------------
(* Remote operations.                                                      *)
(* search and get_by_id send through get_with_retry; request_challenge,    *)
(* publish and flag send once, through HTTP_CLIENT.  A send returns a      *)
(* response with a status or a reqwest::Error, of which is_connect,        *)
(* is_timeout and is_request tell three kinds from the others.             *)

MAX_RETRIES == 3

RETRY_DELAY_MS == 1000

GetOps == {"search", "get_by_id"}

PostOps == {"request_challenge", "publish", "flag"}

Statuses == {200, 201, 400, 404, 429, 500, 503}

SendErrors == {"connect", "timeout", "request", "redirect", "builder"}

Received(status) == [ok |-> TRUE, status |-> status, err |-> ""]

Failed(err) == [ok |-> FALSE, status |-> 0, err |-> err]

SendOutcomes == {Received(st) : st \in Statuses} \cup {Failed(err) : err \in SendErrors}

\* Result of the request function of an operation
NetPending ==
    [state |-> "pending", value |-> "", error |-> "", status_code |-> None, message |-> ""]

NetOk(value) ==
    [state |-> "ok", value |-> value, error |-> "", status_code |-> None, message |-> ""]

\* an error that is not a ResponseError: a reqwest::Error of a send or of
\* the decoding of a body
NetErr(error, status_code) ==
    [state |-> "err", value |-> "", error |-> error, status_code |-> status_code,
     message |-> ""]

\* Err(ResponseError {status_code, error, message})
ResponseError(status_code, error, message) ==
    [state |-> "err", value |-> "", error |-> error, status_code |-> status_code,
     message |-> message]

\* The body of a response: the payload of the operation, the JSON object
\* {statusCode?, error, message} of the remote, or something else.
Body(kind, statusCode, error, message) ==
    [kind |-> kind, statusCode |-> statusCode, error |-> error, message |-> message]

Bodies ==
    {Body("payload", None, "", ""), Body("other", None, "", "")}
        \cup {Body("error", sc, "TrackNotFound", m) :
                 sc \in {None, Some(400), Some(404)}, m \in {"m1", "m2"}}

\* lines 41, 63: the errors after which the send is repeated
is_transient(e) == e \in {"connect", "timeout", "request"}

\* lines 45, 67: milliseconds slept after the failure of attempt, counted from 0
retry_delay_constant(attempt) == RETRY_DELAY_MS

retry_delay(attempt) == RETRY_DELAY_MS * (attempt + 1)

success_status_ok(op) == 200

\* the status that is the success of the operation
success_status(op) == IF op \in {"publish", "flag"} THEN 201 ELSE 200

request_status_as_code(op, status, body) ==
    IF status = success_status(op)
    THEN (IF op \in {"publish", "flag"} THEN NetOk("()")
          ELSE IF body.kind = "payload" THEN NetOk("body") ELSE NetErr("decode", None))
    ELSE IF op = "get_by_id" /\ status = 404 THEN NetOk("None")
    ELSE IF status \in {400, 503, 500}
    THEN (IF body.kind = "error"
          THEN ResponseError(Some(status), body.error, body.message)
          ELSE NetErr("decode", None))
    ELSE ResponseError(None, "UnknownError", "Unknown error happened")

\* The match on res.status() of the request functions; res.json() fails
\* with a decoding error on a body that is not of the type the arm reads.
request(op, status, body) ==
    IF status = success_status(op)
    THEN (IF op \in {"publish", "flag"} THEN NetOk("()")
          ELSE IF body.kind = "payload" THEN NetOk("body") ELSE NetErr("decode", None))
    ELSE IF op = "get_by_id" /\ status = 404 THEN NetOk("None")
    ELSE IF status \in {400, 503, 500}
    THEN (IF body.kind = "error"
          THEN ResponseError(body.statusCode, body.error, body.message)
          ELSE NetErr("decode", None))
    ELSE ResponseError(None, "UnknownError", "Unknown error happened")

\* What the caller of a send does with a result it returns: `?` on an
\* error, the match on the status of a response.
returned(n, o, body) ==
    [n EXCEPT !.pc = "done", !.got = Some(o), !.body = IF o.ok THEN Some(body) ELSE None,
              !.outcome = IF o.ok THEN request(n.op, o.status, body)
                          ELSE NetErr(o.err, None)]

\* get_with_retry: the iteration of the loop in which the send of attempt
\* n.attempt returns o
get_with_retry(n, o, body) ==
    LET sent == [n EXCEPT !.log = Append(@, o)]
    IN  IF o.ok THEN returned(sent, o, body)
        ELSE IF is_transient(o.err)
        THEN LET kept == [sent EXCEPT !.last_err = Some(o)]
             IN  IF n.attempt + 1 < MAX_RETRIES
                 THEN [kept EXCEPT !.pc = "sleep",
                                   !.slept = Append(@, retry_delay(n.attempt))]
                 ELSE returned(kept, kept.last_err[1], body)
        ELSE returned(sent, o, body)

\* HTTP_CLIENT.post(url).send().await?
send(n, o, body) == returned([n EXCEPT !.log = Append(@, o)], o, body)

----------------------------------------------------------------------------
(* Values the variables of the other components rest at *)

NoSim == [a |-> <<>>, b |-> <<>>, called |-> FALSE,
          ab |-> <<0, 1>>, ba |-> <<0, 1>>, aa |-> <<0, 1>>]

NoRank == [results |-> <<>>, duration |-> 0, duration_tolerance |-> 0,
           called |-> FALSE, winner |-> None]

NoCfg == [duration_tolerance |-> 0, fuzzy_search_enabled |-> FALSE,
          is_try_embed_lyrics |-> FALSE]

NoTrack == [title |-> <<>>, duration |-> 0, file_path |-> <<>>]

\* no writer operation has run
NoApplied == [name |-> "none", lyrics |-> ResponseNone, embed |-> FALSE,
              ok |-> FALSE, again |-> FALSE]

\* no remote operation is called
NoNet == [op |-> "none", pc |-> "none", attempt |-> 0, log |-> <<>>, slept |-> <<>>,
          last_err |-> None, got |-> None, body |-> None, outcome |-> NetPending]

NoPow == [prefix |-> <<>>, target |-> <<>>, called |-> FALSE, nonce |-> None]

NoFlow == [command |-> "none", pc |-> "none", challenge_response |-> None, nonce |-> None,
           log |-> <<>>, returned |-> "pending", runs |-> 0, issued |-> 0]

NoDb == <<>>

NoPair == [pc |-> "none", tracks |-> <<>>, fs0 |-> <<>>, fs |-> <<>>]

NoCmd == [pc |-> "none", has_plain |-> FALSE, returned |-> "", ok |-> FALSE,
          row0 |-> <<>>, txt0 |-> <<>>, lrc0 |-> <<>>]

NoLib == [slot |-> None, procs |-> <<>>]

\* the components added to the first ones are not in use
NoRest ==
    /\ pow = NoPow
    /\ flow = NoFlow
    /\ db = NoDb
    /\ pair = NoPair
    /\ cmd = NoCmd
    /\ lib = NoLib

NoCall ==
    /\ pc = "none"
    /\ net = NoNet
    /\ NoRest
    /\ cfg = NoCfg
    /\ requests = <<>>
    /\ inflight = {}
    /\ exactRes = GetErr("")
    /\ fieldSel = NotAsked
    /\ fuzzySel = NotAsked
    /\ reply = <<>>

NoFiles ==
    /\ track = NoTrack
    /\ result = Pending
    /\ txt = NoFile
    /\ lrc = NoFile
    /\ audio = Audio(FALSE, None, None)
    /\ calls = <<>>
    /\ ops = 0
    /\ applied = NoApplied

----------------------------------------------------------------------------
(* Specification of the text similarity scorer: one call, its inputs drawn *)
(* from all strings over SimAlphabet of length at most MaxLen.             *)

SimInit ==
    /\ sim = NoSim
    /\ rank = NoRank
    /\ NoCall
    /\ NoFiles

SimCall ==
    /\ ~sim.called
    /\ \E a \in SimStrings, b \in SimStrings :
          sim' = [a |-> a, b |-> b, called |-> TRUE,
                  ab |-> text_similarity(a, b),
                  ba |-> text_similarity(b, a),
                  aa |-> text_similarity(a, a)]
    /\ UNCHANGED <<rank, net, restVars, callVars, track, result, fileVars>>

SimNext == SimCall

SpecSim == SimInit /\ [][SimNext]_vars

----------------------------------------------------------------------------
(* Specification of the candidate ranking: one call, with at most MaxCands *)
(* candidates, target duration 10 and a tolerance of -1, 0 or 1.           *)

RankInit ==
    /\ rank = NoRank
    /\ sim = NoSim
    /\ NoCall
    /\ NoFiles

RankCall ==
    /\ ~rank.called
    /\ \E q \in SeqsUpTo(RankItems, MaxCands), tol \in {-1, 0, 1} :
          rank' = [results |-> WithIds(q), duration |-> 10, duration_tolerance |-> tol,
                   called |-> TRUE,
                   winner |-> pick_best_match(WithIds(q), 10, tol)]
    /\ UNCHANGED <<sim, net, restVars, callVars, track, result, fileVars>>

RankNext == RankCall

SpecRank == RankInit /\ [][RankNext]_vars

----------------------------------------------------------------------------
(* Specification of the persistence writer: apply_lyrics_for_track and     *)
(* apply_string_lyrics_for_track run one at a time on one track, at most   *)
(* MaxOps times.                                                           *)

Responses ==
    {ResponseNone, IsInstrumental}
        \cup {UnsyncedLyrics(p) : p \in PlainTexts}
        \cup {SyncedLyrics(y, p) : y \in SyncedTexts, p \in PlainTexts}

FilePaths == {<<"t", ".", "M", "p", "3">>, <<"t", ".", "f", "l", "a", "c">>,
              <<"t", ".", "o", "g", "g">>}

InitialFiles == {NoFile, ForeignFile(<<>>), ForeignFile(<<"W", "W">>)}

WriterInitAny ==
    /\ sim = NoSim
    /\ rank = NoRank
    /\ NoCall
    /\ track \in {[title |-> <<>>, duration |-> 10, file_path |-> fp] : fp \in FilePaths}
    /\ result = Pending
    /\ txt \in InitialFiles
    /\ lrc \in InitialFiles
    /\ audio \in {Audio(tg, None, None) : tg \in BOOLEAN}
    /\ calls = <<>>
    /\ ops = 0
    /\ applied = NoApplied

\* The two strings given to apply_string_lyrics_for_track
StringLyrics(plain_lyrics, synced_lyrics) ==
    [kind |-> "Strings", synced |-> synced_lyrics, plain |-> plain_lyrics]

WriterInit ==
    /\ WriterInitAny
    /\ ~(txt.exists /\ lrc.exists)

\* The files as the writer operation r leaves them
Commit(r) ==
    /\ txt' = r.txt
    /\ lrc' = r.lrc
    /\ audio' = r.audio
    /\ calls' = r.calls
    /\ ops' = ops + 1

\* The operation as the next one finds it recorded; again tells that it
\* repeats, with the same lyrics, the operation before it, both returning Ok.
Ran(name, lyrics, embed, r) ==
    applied' = [name |-> name, lyrics |-> lyrics, embed |-> embed, ok |-> r.ok,
                again |-> applied.name = name /\ applied.lyrics = lyrics
                            /\ applied.ok /\ r.ok]

Returned(r) ==
    /\ Commit(r)
    /\ result' = IF r.ok THEN Ok(r.response, "") ELSE Err("io")
    /\ UNCHANGED <<sim, rank, net, restVars, callVars, track>>

ApplyLyrics ==
    /\ ops < MaxOps
    /\ \E lyrics \in Responses, embed \in BOOLEAN, w \in {"ok", "fail"}, e \in {"ok", "fail"} :
          LET r == apply_lyrics_for_track(txt, lrc, audio, track.file_path,
                                          lyrics, embed, w, e)
          IN  Returned(r) /\ Ran("apply_lyrics_for_track", lyrics, embed, r)

ApplyStringLyrics ==
    /\ ops < MaxOps
    /\ \E p \in PlainTexts, y \in SyncedTexts, embed \in BOOLEAN,
          w1 \in {"ok", "fail"}, w2 \in {"ok", "fail"}, e \in {"ok", "fail"} :
          LET r == apply_string_lyrics_for_track(txt, lrc, audio, track.file_path,
                                                 p, y, embed, w1, w2, e)
          IN  Returned(r) /\ Ran("apply_string_lyrics_for_track",
                                 StringLyrics(p, y), embed, r)

WriterNext == ApplyLyrics \/ ApplyStringLyrics

SpecWriter == WriterInit /\ [][WriterNext]_vars

SpecWriterAny == WriterInitAny /\ [][WriterNext]_vars

----------------------------------------------------------------------------
(* Specification of the resolution: one call of download_lyrics_for_track. *)
(* An action is the code between two awaits of a remote request.           *)

\* download_lyrics_for_track is called
CallInit ==
    /\ sim = NoSim
    /\ rank = NoRank
    /\ net = NoNet
    /\ pc = "start"
    /\ cfg \in [duration_tolerance : {-1, 0, 2}, fuzzy_search_enabled : BOOLEAN,
                is_try_embed_lyrics : BOOLEAN]
    /\ track = [title |-> <<"a", " ", "b">>, duration |-> 10,
                file_path |-> <<"t", ".", "M", "p", "3">>]
    /\ requests = <<>>
    /\ inflight = {}
    /\ exactRes = GetErr("")
    /\ fieldSel = NotAsked
    /\ fuzzySel = NotAsked
    /\ reply = <<>>
    /\ result = Pending
    /\ txt \in {NoFile, ForeignFile(<<"W", "W">>)}
    /\ lrc = NoFile
    /\ audio = Audio(TRUE, None, None)
    /\ calls = <<>>
    /\ ops = 0
    /\ applied = NoApplied

Init == CallInit /\ NoRest

\* line 64: the fallback tiers are skipped
fallbacks_skipped_below_zero(duration_tolerance) == duration_tolerance < 0

fallbacks_skipped(duration_tolerance) == duration_tolerance <= 0

\* line 87: the fuzzy tier is skipped
fuzzy_skipped_never(fuzzy_search_enabled) == FALSE

fuzzy_skipped(fuzzy_search_enabled) == ~fuzzy_search_enabled

\* Send a remote request and await its reply
Issue(kind, at, awaited) ==
    /\ requests' = Append(requests, kind)
    /\ inflight' = awaited \cup {kind}
    /\ pc' = at

\* Apply lyrics, then return (response, source) or the writer's error
ApplyAndReturn(lyrics, source, w, e) ==
    LET r == apply_lyrics_for_track(txt, lrc, audio, track.file_path, lyrics,
                                    cfg.is_try_embed_lyrics, w, e)
    IN  /\ Commit(r)
        /\ Ran("apply_lyrics_for_track", lyrics, cfg.is_try_embed_lyrics, r)
        /\ result' = IF r.ok THEN Ok(r.response, source) ELSE Err("io")
        /\ pc' = "done"

\* lines 48-54: the exact lookup is requested
Start ==
    /\ pc = "start"
    /\ Issue("get", "exact", inflight)
    /\ UNCHANGED <<sim, rank, net, restVars, cfg, track, exactRes, fieldSel, fuzzySel, reply,
                   result, fileVars>>

\* lines 55-78: the exact lookup returns
ExactReturns ==
    /\ pc = "exact"
    /\ \E lyrics \in GetOutcomes, w \in {"ok", "fail"}, e \in {"ok", "fail"} :
          /\ exactRes' = lyrics
          /\ IF ~lyrics.ok
             THEN /\ result' = Err(lyrics.err)
                  /\ pc' = "done"
                  /\ inflight' = inflight \ {"get"}
                  /\ UNCHANGED <<requests, fileVars>>
             ELSE IF lyrics.response.kind # "None"
             THEN /\ ApplyAndReturn(lyrics.response, "Exact", w, e)
                  /\ inflight' = inflight \ {"get"}
                  /\ UNCHANGED requests
             ELSE IF fallbacks_skipped(cfg.duration_tolerance)
             THEN /\ ApplyAndReturn(ResponseNone, "None", w, e)
                  /\ inflight' = inflight \ {"get"}
                  /\ UNCHANGED requests
             ELSE /\ Issue("search_fields", "field", inflight \ {"get"})
                  /\ UNCHANGED <<result, fileVars>>
    /\ UNCHANGED <<sim, rank, net, restVars, cfg, track, fieldSel, fuzzySel, reply>>

\* search_with_duration_tolerance, lines 207-210, on the reply of the search
ranked_response(selected) ==
    IF selected # None THEN search_item_to_response(selected[1]) ELSE ResponseNone

\* lines 78-100: the field-based search returns
FieldSearchReturns ==
    /\ pc = "field"
    /\ \E results \in SearchOutcomes, w \in {"ok", "fail"}, e \in {"ok", "fail"} :
          LET selected == IF results.ok
                          THEN pick_best_match(results.items, track.duration,
                                               cfg.duration_tolerance)
                          ELSE None
              fallback == ranked_response(selected)
          IN  /\ fieldSel' = Found(results.ok, selected)
              /\ IF results.ok /\ fallback.kind # "None"
                 THEN /\ ApplyAndReturn(fallback, "DurationFallback", w, e)
                      /\ inflight' = inflight \ {"search_fields"}
                      /\ reply' = results.items
                      /\ UNCHANGED requests
                 ELSE IF fuzzy_skipped(cfg.fuzzy_search_enabled)
                 THEN /\ ApplyAndReturn(ResponseNone, "None", w, e)
                      /\ inflight' = inflight \ {"search_fields"}
                      /\ reply' = results.items
                      /\ UNCHANGED requests
                 ELSE /\ Issue("search_q", "fuzzy", inflight \ {"search_fields"})
                      /\ UNCHANGED <<result, fileVars, reply>>
    /\ UNCHANGED <<sim, rank, net, restVars, cfg, track, exactRes, fuzzySel>>

fuzzy_source_always(lyrics) == "FuzzyFallback"

\* lines 102-106: the source reported with the result of the fuzzy tier
fuzzy_source(lyrics) == IF lyrics.kind = "None" THEN "None" ELSE "FuzzyFallback"

\* lines 100-116, with search_fuzzy_fallback's lines 223-235: the free-text
\* search returns
FuzzyReturns ==
    /\ pc = "fuzzy"
    /\ \E results \in SearchOutcomes, w \in {"ok", "fail"}, e \in {"ok", "fail"} :
          LET candidates == filter_similar(results.items, track.title)
              selected == IF results.ok
                          THEN pick_best_match(candidates, track.duration,
                                               cfg.duration_tolerance)
                          ELSE None
              lyrics == ranked_response(selected)
          IN  /\ fuzzySel' = Found(results.ok, selected)
              /\ reply' = results.items
              /\ inflight' = inflight \ {"search_q"}
              /\ IF results.ok
                 THEN ApplyAndReturn(lyrics, fuzzy_source(lyrics), w, e)
                 ELSE ApplyAndReturn(ResponseNone, "None", w, e)
    /\ UNCHANGED <<sim, rank, net, restVars, cfg, track, exactRes, fieldSel, requests>>

Next == Start \/ ExactReturns \/ FieldSearchReturns \/ FuzzyReturns

Spec == Init /\ [][Next]_vars

----------------------------------------------------------------------------
(* Specification of the remote operations: one call of one operation.      *)

NetInit ==
    /\ sim = NoSim
    /\ rank = NoRank
    /\ NoCall
    /\ NoFiles

\* the request function of an operation is called and sends
Call ==
    /\ net.pc = "none"
    /\ \E op \in GetOps \cup PostOps : net' = [net EXCEPT !.op = op, !.pc = "send"]
    /\ UNCHANGED <<sim, rank, callVars, track, result, fileVars, restVars>>

\* the send returns
SendReturns ==
    /\ net.pc = "send"
    /\ \E o \in SendOutcomes, body \in Bodies :
          net' = IF net.op \in GetOps THEN get_with_retry(net, o, body)
                 ELSE send(net, o, body)
    /\ UNCHANGED <<sim, rank, callVars, track, result, fileVars, restVars>>

\* line 45: the sleep ends and the loop sends again
Wake ==
    /\ net.pc = "sleep"
    /\ net' = [net EXCEPT !.pc = "send", !.attempt = @ + 1]
    /\ UNCHANGED <<sim, rank, callVars, track, result, fileVars, restVars>>

NetNext == Call \/ SendReturns \/ Wake

SpecNet == NetInit /\ [][NetNext]_vars

\* The runtime polls the call until it returns; a send returns at the
\* latest when the 30 s timeout of HTTP_CLIENT elapses, and a sleep ends.
SpecNetFair == SpecNet /\ WF_vars(NetNext)

----------------------------------------------------------------------------
(* Proof-of-work solver: solve_challenge(prefix, target).                  *)
(* The digest is a stand-in for the 256-bit hash: DigestLen bytes, each a  *)
(* fold over the bytes of the input, written as lowercase hex.  The search *)
(* of the solver has no bound; the model follows it up to MaxNonce.        *)

MaxNonce == 6      \* largest nonce the model lets the solver try

DigestLen == 2

Digits == <<"0", "1", "2", "3", "4", "5", "6", "7", "8", "9">>

HexDigits == Digits \o <<"a", "b", "c", "d", "e", "f">>

\* decimal string of a natural number
RECURSIVE to_string(_)
to_string(n) ==
    IF n < 10 THEN <<Digits[n + 1]>>
    ELSE to_string(n \div 10) \o <<Digits[(n % 10) + 1]>>

\* the byte of a character of a prefix or of a nonce
char_code(c) ==
    IF \E d \in 1..10 : Digits[d] = c
    THEN 47 + (CHOOSE d \in 1..10 : Digits[d] = c)
    ELSE IF c = "p" THEN 112 ELSE 113

RECURSIVE mix(_, _, _)
mix(h, input, k) ==
    IF k > Len(input) THEN h
    ELSE mix(((h + char_code(input[k])) * (h + char_code(input[k]) + 3)) % 256,
             input, k + 1)

\* the digest of the input, as bytes
hash(input) == [i \in 1..DigestLen |-> mix(17 + 84 * (i - 1), input, 1)]

\* lowercase hex of a sequence of bytes
RECURSIVE encode(_)
encode(bytes) ==
    IF bytes = <<>> THEN <<>>
    ELSE <<HexDigits[(bytes[1] \div 16) + 1], HexDigits[(bytes[1] % 16) + 1]>>
            \o encode(Tail(bytes))

hex_value(c) == (CHOOSE d \in 1..16 : HexDigits[d] = c) - 1

\* the bytes a hex string stands for
RECURSIVE decode(_)
decode(hex) ==
    IF Len(hex) < 2 THEN <<>>
    ELSE <<hex_value(hex[1]) * 16 + hex_value(hex[2])>> \o decode(Tail(Tail(hex)))

\* result <= target, compared byte by byte from the most significant one
RECURSIVE verify_nonce(_, _)
verify_nonce(hashed, target) ==
    IF hashed = <<>> THEN TRUE
    ELSE IF hashed[1] < target[1] THEN TRUE
    ELSE IF hashed[1] > target[1] THEN FALSE
    ELSE verify_nonce(Tail(hashed), Tail(target))

\* the search from nonce on: the first nonce whose digest meets the target
RECURSIVE solve_from(_, _, _)
solve_from(prefix, target, nonce) ==
    IF nonce > MaxNonce THEN None
    ELSE IF verify_nonce(decode(encode(hash(prefix \o to_string(nonce)))), decode(target))
    THEN Some(nonce)
    ELSE solve_from(prefix, target, nonce + 1)

solve_challenge_from_one(prefix, target) == solve_from(prefix, target, 1)

solve_challenge(prefix, target) == solve_from(prefix, target, 0)

Prefixes == {<<"p">>, <<"q">>, <<"p", "q">>, <<"q", "1">>}

Targets ==
    {encode(<<b1, b2>>) : b1 \in {0, 3, 4, 16, 47, 128, 255}, b2 \in {0, 9, 31, 88, 160, 255}}

----------------------------------------------------------------------------
(* Specification of the solver: one call, on a challenge of the remote.    *)

SolveInit ==
    /\ sim = NoSim
    /\ rank = NoRank
    /\ NoCall
    /\ NoFiles

SolveCall ==
    /\ ~pow.called
    /\ \E prefix \in Prefixes, target \in Targets :
          pow' = [prefix |-> prefix, target |-> target, called |-> TRUE,
                  nonce |-> solve_challenge(prefix, target)]
    /\ UNCHANGED <<coreVars, flow, db, pair, cmd, lib>>

SolveNext == SolveCall

SpecSolve == SolveInit /\ [][SolveNext]_vars

----------------------------------------------------------------------------
(* Specification of publish_lyrics and flag_lyrics: commands run one after *)
(* the other, at most MaxRuns of them.  log is what a command did: the     *)
(* requests it sent, the challenge it received, the start and the return   *)
(* of the solver.  The remote numbers the challenges it issues.            *)

MaxRuns == 2       \* commands run in one behaviour

Challenges ==
    {[prefix |-> <<"q", "1">>, target |-> <<"0", "0", "a", "0">>],
     [prefix |-> <<"p">>, target |-> <<"2", "f", "f", "f">>],
     [prefix |-> <<"p">>, target |-> <<"0", "0", "0", "0">>]}

Event(ev, run, challenge, nonce, token) ==
    [ev |-> ev, run |-> run, challenge |-> challenge, nonce |-> nonce, token |-> token]

\* lines 282, 341: format!("{}:{}", challenge_response.prefix, nonce)
publish_token_of_target(challenge_response, nonce) ==
    challenge_response.target \o <<":">> \o to_string(nonce)

publish_token(challenge_response, nonce) ==
    challenge_response.prefix \o <<":">> \o to_string(nonce)

FlowInit ==
    /\ sim = NoSim
    /\ rank = NoRank
    /\ NoCall
    /\ NoFiles

\* lines 249-264, 308-323: the command is called, reads the configuration
\* and requests a challenge
FlowCall ==
    /\ flow.pc \in {"none", "done"}
    /\ flow.runs < MaxRuns
    /\ \E command \in {"publish_lyrics", "flag_lyrics"}, config \in {"ok", "fail"} :
          flow' = IF config = "fail"
                  THEN [flow EXCEPT !.command = command, !.pc = "done",
                                    !.runs = @ + 1, !.returned = "err",
                                    !.challenge_response = None, !.nonce = None]
                  ELSE [flow EXCEPT !.command = command, !.pc = "challenge",
                                    !.runs = @ + 1, !.returned = "pending",
                                    !.challenge_response = None, !.nonce = None,
                                    !.log = Append(@, Event("request_challenge",
                                                   flow.runs + 1, None, None, <<>>))]
    /\ UNCHANGED <<coreVars, pow, db, pair, cmd, lib>>

\* lines 262-274, 321-333: request_challenge returns; on Ok the solver is
\* started on a blocking thread
ChallengeReturns ==
    /\ flow.pc = "challenge"
    /\ \/ flow' = [flow EXCEPT !.pc = "done", !.returned = "err",
                               !.log = Append(@, Event("challenge_failed", flow.runs,
                                                       None, None, <<>>))]
       \/ \E c \in Challenges :
             LET challenge_response == [serial |-> flow.issued + 1,
                                        prefix |-> c.prefix, target |-> c.target]
             IN  flow' = [flow EXCEPT
                    !.pc = "solving", !.issued = @ + 1,
                    !.challenge_response = Some(challenge_response),
                    !.log = @ \o <<Event("challenge", flow.runs,
                                         Some(challenge_response), None, <<>>),
                                   Event("solve", flow.runs,
                                         Some(challenge_response), None, <<>>)>>]
    /\ UNCHANGED <<coreVars, pow, db, pair, cmd, lib>>

\* lines 272-294, 331-349: the blocking task returns the nonce, or its
\* JoinError; with the nonce the token is built and the request is sent
SolverReturns ==
    /\ flow.pc = "solving"
    /\ LET challenge_response == flow.challenge_response[1]
           nonce == solve_challenge(challenge_response.prefix, challenge_response.target)
       IN  \/ flow' = [flow EXCEPT !.pc = "done", !.returned = "err",
                                   !.log = Append(@, Event("solve_failed", flow.runs,
                                                  Some(challenge_response), None, <<>>))]
           \/ /\ nonce # None
              /\ flow' = [flow EXCEPT
                    !.pc = "sending", !.nonce = nonce,
                    !.log = @ \o <<Event("solved", flow.runs,
                                         Some(challenge_response), nonce, <<>>),
                                   Event(IF flow.command = "publish_lyrics"
                                         THEN "publish" ELSE "flag", flow.runs, None, None,
                                         publish_token(challenge_response, nonce[1]))>>]
    /\ UNCHANGED <<coreVars, pow, db, pair, cmd, lib>>

\* lines 283-299, 342-354: publish::request or flag::request returns
PublishReturns ==
    /\ flow.pc = "sending"
    /\ \E o \in {"ok", "err"} : flow' = [flow EXCEPT !.pc = "done", !.returned = o]
    /\ UNCHANGED <<coreVars, pow, db, pair, cmd, lib>>

FlowNext == FlowCall \/ ChallengeReturns \/ SolverReturns \/ PublishReturns

SpecFlow == FlowInit /\ [][FlowNext]_vars

----------------------------------------------------------------------------
(* Catalog: the lyrics columns of the tracks table.  The table is the      *)
(* sequence of its rows, the id of a track its position.                   *)

MaxTracks == 2     \* rows of the tracks table

Row(txt_lyrics, lrc_lyrics, instrumental, lyrics_status) ==
    [txt_lyrics |-> txt_lyrics, lrc_lyrics |-> lrc_lyrics,
     instrumental |-> instrumental, lyrics_status |-> lyrics_status]

\* RE_INSTRUMENTAL.is_match: \[au:\s*instrumental\] found anywhere in the text
is_match_instrumental(lyrics) ==
    \E k \in 1..Len(lyrics) : lyrics[k] \in {"[au: instrumental]", "[au:instrumental]"}

update_track_synced_lyrics(rows, id, synced_lyrics, plain_lyrics) ==
    [rows EXCEPT ![id] = Row(Some(plain_lyrics), Some(synced_lyrics), FALSE, "synced")]

update_track_plain_lyrics(rows, id, plain_lyrics) ==
    [rows EXCEPT ![id] = Row(Some(plain_lyrics), None, FALSE, "plain")]

update_track_null_lyrics(rows, id) ==
    [rows EXCEPT ![id] = Row(None, None, FALSE, "missing")]

update_track_instrumental(rows, id) ==
    [rows EXCEPT ![id] = Row(None, Some(INSTRUMENTAL_MARKER), TRUE, "instrumental")]

\* an FsTrack: the sidecars read_sidecar_lyrics found next to the audio file
FsTrack(txt_lyrics, lrc_lyrics) == [txt_lyrics |-> txt_lyrics, lrc_lyrics |-> lrc_lyrics]

\* add_tracks, lines 602-630: the row inserted for a scanned track
inserted_row(fs_track) ==
    LET is_instrumental == /\ fs_track.lrc_lyrics # None
                           /\ is_match_instrumental(fs_track.lrc_lyrics[1])
        lyrics_status == IF is_instrumental THEN "instrumental"
                         ELSE IF fs_track.lrc_lyrics # None THEN "synced"
                         ELSE IF fs_track.txt_lyrics # None THEN "plain"
                         ELSE "missing"
    IN  Row(fs_track.txt_lyrics, fs_track.lrc_lyrics, is_instrumental, lyrics_status)

add_tracks(rows, tracks) == rows \o [k \in 1..Len(tracks) |-> inserted_row(tracks[k])]

FsTracks ==
    {FsTrack(t, l) : t \in {None, Some(<<"W">>)},
                     l \in {None, Some(<<"TAG", "W">>), Some(INSTRUMENTAL_MARKER),
                            Some(<<"[au:instrumental]", "NL", "TAG", "W">>)}}

----------------------------------------------------------------------------
(* Specification of the catalog: scans and the updates of the lyrics       *)
(* columns, in any order.                                                  *)

DbInit ==
    /\ sim = NoSim
    /\ rank = NoRank
    /\ NoCall
    /\ NoFiles

\* a scan adds the tracks it found
AddTracks ==
    /\ \E tracks \in SeqsUpTo(FsTracks, MaxTracks - Len(db)) :
          /\ tracks # <<>>
          /\ db' = add_tracks(db, tracks)
    /\ UNCHANGED <<coreVars, pow, flow, pair, cmd, lib>>

UpdateSynced ==
    /\ \E id \in 1..Len(db), y \in SyncedTexts \ {<<>>}, p \in PlainTexts :
          db' = update_track_synced_lyrics(db, id, y, p)
    /\ UNCHANGED <<coreVars, pow, flow, pair, cmd, lib>>

UpdatePlain ==
    /\ \E id \in 1..Len(db), p \in PlainTexts :
          db' = update_track_plain_lyrics(db, id, p)
    /\ UNCHANGED <<coreVars, pow, flow, pair, cmd, lib>>

UpdateNull ==
    /\ \E id \in 1..Len(db) : db' = update_track_null_lyrics(db, id)
    /\ UNCHANGED <<coreVars, pow, flow, pair, cmd, lib>>

UpdateInstrumental ==
    /\ \E id \in 1..Len(db) : db' = update_track_instrumental(db, id)
    /\ UNCHANGED <<coreVars, pow, flow, pair, cmd, lib>>

DbNext == AddTracks \/ UpdateSynced \/ UpdatePlain \/ UpdateNull \/ UpdateInstrumental

SpecDb == DbInit /\ [][DbNext]_vars

----------------------------------------------------------------------------
(* Writer operations on two tracks running concurrently.  Each operation   *)
(* is the sequence of the remove_file and write calls of its save_* call;  *)
(* the calls of the two operations interleave in any order on one file     *)
(* system, a function from sidecar paths to files.                         *)

\* Path::file_stem: the path without its last extension
RECURSIVE file_stem(_)
file_stem(path) ==
    IF path = <<>> THEN <<>>
    ELSE IF path[Len(path)] = "." THEN SubSeq(path, 1, Len(path) - 1)
    ELSE file_stem(SubSeq(path, 1, Len(path) - 1))

build_txt_path_without_stem(track_path) == <<".", "t", "x", "t">>

build_txt_path(track_path) == file_stem(track_path) \o <<".", "t", "x", "t">>

build_lrc_path(track_path) == file_stem(track_path) \o <<".", "l", "r", "c">>

FsRemove(path) == [call |-> "remove_file", path |-> path, text |-> <<>>, w |-> "ok"]

FsWrite(path, text, w) == [call |-> "write", path |-> path, text |-> text, w |-> w]

\* the file system calls of apply_lyrics_for_track, in order
fs_calls(track_path, lyrics, w) ==
    LET txt_path == build_txt_path(track_path)
        lrc_path == build_lrc_path(track_path)
    IN  CASE lyrics.kind = "SyncedLyrics" ->
                IF lyrics.synced = <<>> THEN <<FsRemove(lrc_path)>>
                ELSE <<FsRemove(txt_path), FsWrite(lrc_path, lyrics.synced, w)>>
          [] lyrics.kind = "UnsyncedLyrics" ->
                IF lyrics.plain = <<>> THEN <<FsRemove(lrc_path), FsRemove(txt_path)>>
                ELSE <<FsRemove(lrc_path), FsWrite(txt_path, lyrics.plain, w)>>
          [] lyrics.kind = "IsInstrumental" ->
                <<FsRemove(lrc_path), FsRemove(txt_path),
                  FsWrite(lrc_path, INSTRUMENTAL_MARKER, w)>>
          [] OTHER -> <<>>

\* the file system after one call
fs_after(fs, c) ==
    IF c.call = "remove_file" THEN [fs EXCEPT ![c.path] = remove_file(@)]
    ELSE IF c.w = "ok" THEN [fs EXCEPT ![c.path] = write(@, c.text)]
    ELSE fs

PairPaths ==
    {<<"t", ".", "m", "p", "3">>, <<"t", ".", "f", "l", "a", "c">>, <<"u", ".", "m", "p", "3">>}

SidecarPaths == UNION {{build_txt_path(p), build_lrc_path(p)} : p \in PairPaths}

PairLyrics ==
    {IsInstrumental, UnsyncedLyrics(<<"W">>), SyncedLyrics(<<"TAG", "W">>, <<"W">>),
     SyncedLyrics(<<>>, <<>>)}

PairInit ==
    /\ sim = NoSim
    /\ rank = NoRank
    /\ NoCall
    /\ NoFiles

\* the two operations are called, for two tracks with distinct file paths
PairStart ==
    /\ pair.pc = "none"
    /\ \E p1 \in PairPaths, p2 \in PairPaths, l1 \in PairLyrics, l2 \in PairLyrics,
          w1 \in {"ok", "fail"}, w2 \in {"ok", "fail"},
          f \in {NoFile, ForeignFile(<<"W", "W">>)} :
          /\ p1 # p2
          /\ pair' = [pc |-> "run",
                      tracks |-> <<[file_path |-> p1, lyrics |-> l1, w |-> w1, at |-> 1],
                                   [file_path |-> p2, lyrics |-> l2, w |-> w2, at |-> 1]>>,
                      fs0 |-> [p \in SidecarPaths |-> f],
                      fs |-> [p \in SidecarPaths |-> f]]
    /\ UNCHANGED <<coreVars, pow, flow, db, cmd, lib>>

\* the operation on track i makes its next file system call
PairStep ==
    /\ pair.pc = "run"
    /\ \E i \in 1..2 :
          LET t == pair.tracks[i]
              cs == fs_calls(t.file_path, t.lyrics, t.w)
          IN  /\ t.at <= Len(cs)
              /\ pair' = [pair EXCEPT
                    !.fs = fs_after(@, cs[t.at]),
                    !.tracks[i].at = IF cs[t.at].w = "ok" THEN @ + 1 ELSE Len(cs) + 1]
    /\ UNCHANGED <<coreVars, pow, flow, db, cmd, lib>>

PairNext == PairStart \/ PairStep

SpecPair == PairInit /\ [][PairNext]_vars

----------------------------------------------------------------------------
(* The download_lyrics command on the track with id 1: it reads the row of *)
(* the track, calls download_lyrics_for_track, and records the result in   *)
(* the catalog.  cmd keeps the row and the sidecars the command found.     *)

\* the row of a track and its sidecars as a scan and the writer leave them
TrackStates ==
    {[row |-> Row(None, None, FALSE, "missing"), txt |-> NoFile, lrc |-> NoFile],
     [row |-> Row(Some(<<"W", "W">>), None, FALSE, "plain"),
      txt |-> ForeignFile(<<"W", "W">>), lrc |-> NoFile],
     [row |-> Row(None, Some(<<"TAG", "W", "W">>), FALSE, "synced"),
      txt |-> NoFile, lrc |-> ForeignFile(<<"TAG", "W", "W">>)],
     [row |-> Row(None, Some(INSTRUMENTAL_MARKER), TRUE, "instrumental"),
      txt |-> NoFile, lrc |-> ForeignFile(INSTRUMENTAL_MARKER)]}

CmdInit ==
    /\ sim = NoSim
    /\ rank = NoRank
    /\ net = NoNet
    /\ pow = NoPow
    /\ flow = NoFlow
    /\ pair = NoPair
    /\ lib = NoLib
    /\ pc = "none"
    /\ cfg \in [duration_tolerance : {-1, 0, 2}, fuzzy_search_enabled : BOOLEAN,
                is_try_embed_lyrics : BOOLEAN]
    /\ track = [title |-> <<"a", " ", "b">>, duration |-> 10,
                file_path |-> <<"t", ".", "M", "p", "3">>]
    /\ requests = <<>>
    /\ inflight = {}
    /\ exactRes = GetErr("")
    /\ fieldSel = NotAsked
    /\ fuzzySel = NotAsked
    /\ reply = <<>>
    /\ result = Pending
    /\ audio = Audio(TRUE, None, None)
    /\ calls = <<>>
    /\ ops = 0
    /\ applied = NoApplied
    /\ \E s \in TrackStates :
          /\ db = <<s.row>>
          /\ txt = s.txt
          /\ lrc = s.lrc
          /\ cmd = [pc |-> "called", has_plain |-> FALSE, returned |-> "", ok |-> FALSE,
                    row0 |-> s.row, txt0 |-> s.txt, lrc0 |-> s.lrc]

\* lines 33, 37: what the command reads from the row of the track
has_synced(row) == row.lrc_lyrics # None /\ row.lrc_lyrics[1] # INSTRUMENTAL_MARKER

has_plain(row) == row.txt_lyrics # None

\* the command has returned Ok(message) or Err(message)
CmdReturned(c, ok, message) == [c EXCEPT !.pc = "returned", !.ok = ok, !.returned = message]

\* lines 26-46: the command reads the track and the configuration and
\* calls download_lyrics_for_track; a read of the catalog can fail
DownloadLyrics ==
    /\ cmd.pc = "called"
    /\ \E read \in {"ok", "fail"} :
          IF read = "fail"
          THEN cmd' = CmdReturned(cmd, FALSE, "db") /\ pc' = pc
          ELSE IF has_synced(db[1])
          THEN /\ cmd' = CmdReturned(cmd, TRUE, "Skipped: already has synced lyrics")
               /\ pc' = pc
          ELSE /\ cmd' = [cmd EXCEPT !.pc = "resolving", !.has_plain = has_plain(db[1])]
               /\ pc' = "start"
    /\ UNCHANGED <<sim, rank, net, cfg, requests, inflight, exactRes, fieldSel, fuzzySel,
                   reply, track, result, fileVars, pow, flow, db, pair, lib>>

\* lines 44-74: download_lyrics_for_track has returned; an update of the
\* catalog can fail
DownloadLyricsReturns ==
    /\ cmd.pc = "resolving"
    /\ pc = "done"
    /\ \E update \in {"ok", "fail"} :
          LET lyrics == result.response
          IN  IF result.state = "err"
              THEN cmd' = CmdReturned(cmd, FALSE, result.err) /\ db' = db
              ELSE IF lyrics.kind = "None"
              THEN cmd' = CmdReturned(cmd, FALSE, "NotFound") /\ db' = db
              ELSE IF lyrics.kind = "UnsyncedLyrics" /\ cmd.has_plain
              THEN /\ cmd' = CmdReturned(cmd, TRUE,
                          "Skipped: already has plain lyrics, no synced available")
                   /\ db' = db
              ELSE IF update = "fail"
              THEN cmd' = CmdReturned(cmd, FALSE, "db") /\ db' = db
              ELSE IF lyrics.kind = "SyncedLyrics"
              THEN /\ db' = update_track_synced_lyrics(db, 1, lyrics.synced, lyrics.plain)
                   /\ cmd' = CmdReturned(cmd, TRUE, "Synced lyrics downloaded")
              ELSE IF lyrics.kind = "UnsyncedLyrics"
              THEN /\ db' = update_track_plain_lyrics(db, 1, lyrics.plain)
                   /\ cmd' = CmdReturned(cmd, TRUE, "Plain lyrics downloaded")
              ELSE /\ db' = update_track_instrumental(db, 1)
                   /\ cmd' = CmdReturned(cmd, TRUE, "Marked track as instrumental")
    /\ UNCHANGED <<coreVars, pow, flow, pair, lib>>

CmdNext ==
    \/ DownloadLyrics
    \/ Start
    \/ ExactReturns
    \/ FieldSearchReturns
    \/ FuzzyReturns
    \/ DownloadLyricsReturns

SpecCmd == CmdInit /\ [][CmdNext]_vars

----------------------------------------------------------------------------
(* The shared database connection: AppState.db, a Mutex<Option<Connection>>.*)
(* Two commands run at a time, each at most MaxRuns times.  A step is the  *)
(* code a command runs while it holds the lock, or the return of its       *)
(* blocking task.                                                          *)

LibCommands == {"initialize_library", "refresh_library", "get_directories"}

Idle(runs) == [command |-> "none", pc |-> "idle", returned |-> "", runs |-> runs]

LibInit ==
    /\ sim = NoSim
    /\ rank = NoRank
    /\ net = NoNet
    /\ pc = "none"
    /\ cfg = NoCfg
    /\ requests = <<>>
    /\ inflight = {}
    /\ exactRes = GetErr("")
    /\ fieldSel = NotAsked
    /\ fuzzySel = NotAsked
    /\ reply = <<>>
    /\ NoFiles
    /\ pow = NoPow
    /\ flow = NoFlow
    /\ db = NoDb
    /\ pair = NoPair
    /\ cmd = NoCmd
    /\ lib = [slot |-> Some("conn"), procs |-> <<Idle(0), Idle(0)>>]

\* lines 9-18: a command that uses the connection in place, under the lock
GetDirectories ==
    /\ \E p \in 1..2, query \in {"Ok", "Cannot get existing directories from database"} :
          /\ lib.procs[p].pc \in {"idle", "returned"}
          /\ lib.procs[p].runs < MaxRuns
          /\ lib' = [lib EXCEPT !.procs[p] =
                [command |-> "get_directories", pc |-> "returned", runs |-> @.runs + 1,
                 returned |-> IF lib.slot = None THEN "Database not initialized"
                              ELSE query]]
    /\ UNCHANGED <<coreVars, pow, flow, db, pair, cmd>>

\* lines 82-85, 113-116: initialize_library or refresh_library takes the
\* connection out of the slot and starts the blocking task
TakeConnection ==
    /\ \E p \in 1..2, command \in {"initialize_library", "refresh_library"} :
          /\ lib.procs[p].pc \in {"idle", "returned"}
          /\ lib.procs[p].runs < MaxRuns
          /\ lib' = IF lib.slot = None
                    THEN [lib EXCEPT !.procs[p] =
                            [command |-> command, pc |-> "returned", runs |-> @.runs + 1,
                             returned |-> "Database not initialized"]]
                    ELSE [lib EXCEPT !.slot = None,
                                     !.procs[p] =
                            [command |-> command, pc |-> "blocking", runs |-> @.runs + 1,
                             returned |-> ""]]
    /\ UNCHANGED <<coreVars, pow, flow, db, pair, cmd>>

\* lines 87-95, 118-127: the blocking task ends.  It returns the connection
\* with the result of the library operation, or it panicked or was
\* cancelled and the await returns a JoinError, which `?` returns with
\* the connection dropped.
BlockingTaskEnds ==
    /\ \E p \in 1..2, task \in {"Ok", "library error", "JoinError"} :
          /\ lib.procs[p].pc = "blocking"
          /\ lib' = [lib EXCEPT !.slot = IF task = "JoinError" THEN @ ELSE Some("conn"),
                                !.procs[p].pc = "returned",
                                !.procs[p].returned = task]
    /\ UNCHANGED <<coreVars, pow, flow, db, pair, cmd>>

LibNext == GetDirectories \/ TakeConnection \/ BlockingTaskEnds

SpecLib == LibInit /\ [][LibNext]_vars

----------------------------------------------------------------------------
(* Claims about the text similarity scorer (SpecSim) *)

EqFrac(x, y) == x[1] * y[2] = y[1] * x[2]

\* C6: text_similarity is symmetric, similarity(a, b) = similarity(b, a) for
\* all strings, and similarity(a, a) = 1.0 for every non-empty a, also when
\* a normalises to the empty string.
C6_SimilaritySymmetric ==
    sim.called =>
        /\ EqFrac(sim.ab, sim.ba)
        /\ sim.a # <<>> => EqFrac(sim.aa, <<1, 1>>)

\* two different strings sharing one of two tokens were compared
C6_Witness ==
    /\ sim.called
    /\ sim.a # sim.b
    /\ EqFrac(sim.ab, <<1, 2>>)
    /\ EqFrac(sim.ba, <<1, 2>>)

\* The tokens of the normalised form of s, stated on s itself: for every
\* maximal run of non-whitespace characters, its alphanumeric characters
\* lowercased, when there are any.
ClaimTokens(s) ==
    LET run(i, j) ==
            /\ \A k \in i..j : ~is_whitespace(s[k])
            /\ i = 1 \/ is_whitespace(s[i - 1])
            /\ j = Len(s) \/ is_whitespace(s[j + 1])
        word(i, j) == SelectSeq(to_lowercase(SubSeq(s, i, j)), is_alphanumeric)
    IN  {word(i, j) : <<i, j>> \in {x \in (1..Len(s)) \X (1..Len(s)) :
                                        x[1] <= x[2] /\ run(x[1], x[2])}} \ {<<>>}

ClaimJaccard(a, b) ==
    LET A == ClaimTokens(a)
        B == ClaimTokens(b)
    IN  IF A = {} /\ B = {} THEN <<1, 1>>
        ELSE IF A = {} \/ B = {} THEN <<0, 1>>
        ELSE <<Cardinality(A \cap B), Cardinality(A \cup B)>>

\* C7: text_similarity(a, b) is the Jaccard index of the token sets of the
\* normalised inputs, 1.0 when both normalise to empty and 0.0 when exactly
\* one does; it lies in [0, 1].
C7_SimilarityIsJaccard ==
    sim.called =>
        /\ EqFrac(sim.ab, ClaimJaccard(sim.a, sim.b))
        /\ sim.ab[2] > 0
        /\ 0 <= sim.ab[1]
        /\ sim.ab[1] <= sim.ab[2]

\* an input with an uppercase letter and punctuation inside its one token
\* was compared with the same token written without them
C7_Witness ==
    /\ sim.called
    /\ sim.a = <<"b", "!", "A">>
    /\ sim.b = <<"b", "a">>
    /\ EqFrac(sim.ab, <<1, 1>>)

----------------------------------------------------------------------------
(* Claims about the candidate ranking (SpecRank) *)

ClaimInside(item, duration, tolerance) ==
    /\ item.duration # None
    /\ item.duration[1] - duration <= tolerance
    /\ duration - item.duration[1] <= tolerance

\* C4: pick_best_match never returns a candidate without a duration or with
\* |d - target| > tolerance, whatever its completeness, and returns no
\* winner exactly when no candidate lies inside the window.
C4_WinnerInsideWindow ==
    rank.called =>
        /\ rank.winner # None =>
              /\ \E i \in 1..Len(rank.results) : rank.results[i] = rank.winner[1]
              /\ ClaimInside(rank.winner[1], rank.duration, rank.duration_tolerance)
        /\ rank.winner = None <=>
              \A i \in 1..Len(rank.results) :
                  ~ClaimInside(rank.results[i], rank.duration, rank.duration_tolerance)

\* the only candidate with synced lyrics lies outside the window and there
\* is no winner
C4_Witness ==
    /\ rank.called
    /\ rank.duration_tolerance = 1
    /\ \E i \in 1..Len(rank.results) :
          /\ rank.results[i].synced_lyrics # None
          /\ rank.results[i].duration = Some(8)
    /\ rank.winner = None

ClaimScore(item) ==
    CASE item.synced_lyrics # None -> 0
      [] item.synced_lyrics = None /\ item.plain_lyrics # None -> 1
      [] item.synced_lyrics = None /\ item.plain_lyrics = None /\ item.instrumental -> 2
      [] OTHER -> 3

ClaimDistance(item, duration) ==
    IF item.duration[1] >= duration THEN item.duration[1] - duration
    ELSE duration - item.duration[1]

\* C5: among the candidates inside the window the winner minimises
\* (completeness score, duration distance) lexicographically.
C5_WinnerMinimal ==
    (rank.called /\ rank.winner # None) =>
        \A i \in 1..Len(rank.results) :
            ClaimInside(rank.results[i], rank.duration, rank.duration_tolerance) =>
                LET w == rank.winner[1]
                    c == rank.results[i]
                IN  \/ ClaimScore(w) < ClaimScore(c)
                    \/ /\ ClaimScore(w) = ClaimScore(c)
                       /\ ClaimDistance(w, rank.duration) <= ClaimDistance(c, rank.duration)

\* a synced candidate won against a plain-only candidate that is closer
C5_Witness ==
    /\ rank.called
    /\ rank.winner # None
    /\ rank.winner[1].synced_lyrics # None
    /\ rank.winner[1].duration = Some(11)
    /\ \E i \in 1..Len(rank.results) :
          /\ rank.results[i].synced_lyrics = None
          /\ rank.results[i].plain_lyrics # None
          /\ rank.results[i].duration = Some(10)

----------------------------------------------------------------------------
(* Claims about the resolution (Spec) *)

Issued(kind) == \E i \in 1..Len(requests) : requests[i] = kind

\* the call returned the error of a failed sidecar write
WriteFailed == pc = "done" /\ result = Err("io")

\* C1: with duration_tolerance <= 0 no search request is ever issued,
\* whatever the exact lookup returns and whatever the fuzzy flag is, and
\* when the exact lookup returns None the call returns (None, None).
C1_NoSearchWithoutTolerance ==
    cfg.duration_tolerance <= 0 =>
        /\ ~Issued("search_fields")
        /\ ~Issued("search_q")
        /\ (pc = "done" /\ exactRes = GetOk(ResponseNone)) =>
              result = Ok(ResponseNone, "None")

\* tolerance 0, fuzzy search enabled, the exact lookup found nothing and
\* the call is over
C1_Witness ==
    /\ cfg.duration_tolerance = 0
    /\ cfg.fuzzy_search_enabled
    /\ pc = "done"
    /\ exactRes = GetOk(ResponseNone)
    /\ requests = <<"get">>
    /\ result = Ok(ResponseNone, "None")

\* a candidate from which nothing can be applied
ClaimUnusable(item) ==
    /\ item.synced_lyrics = None
    /\ item.plain_lyrics = None
    /\ ~item.instrumental

\* C2: the requests are issued in the order exact lookup, field-based
\* search, free-text search, each at most once and never two in flight; the
\* field-based search only after the exact lookup returned None with
\* tolerance > 0, the free-text search only after the field-based search
\* ended without a usable result and with fuzzy search enabled; a non-empty
\* exact result ends the call with source Exact and no search request (when
\* writing the sidecar fails, with that error).
C2_TiersInOrder ==
    /\ \E n \in 0..3 : requests = SubSeq(<<"get", "search_fields", "search_q">>, 1, n)
    /\ Cardinality(inflight) <= 1
    /\ \A k \in inflight : requests # <<>> /\ requests[Len(requests)] = k
    /\ Issued("search_fields") =>
          /\ exactRes = GetOk(ResponseNone)
          /\ cfg.duration_tolerance > 0
    /\ Issued("search_q") =>
          /\ fieldSel.asked
          /\ "search_fields" \notin inflight
          /\ ~fieldSel.ok \/ fieldSel.item = None \/ ClaimUnusable(fieldSel.item[1])
          /\ cfg.fuzzy_search_enabled
    /\ (exactRes.ok /\ exactRes.response # ResponseNone) =>
          /\ pc = "done"
          /\ requests = <<"get">>
          /\ inflight = {}
          /\ result = Ok(exactRes.response, "Exact") \/ WriteFailed

\* all three requests were issued, one after the other, and the last one
\* has been answered
C2_Witness ==
    /\ requests = <<"get", "search_fields", "search_q">>
    /\ inflight = {}
    /\ pc = "done"
    /\ fieldSel.asked
    /\ fuzzySel.asked

\* the Lyrics Result a candidate is converted to, as the claim states it
ClaimConverted(response, item) ==
    CASE item.synced_lyrics # None ->
            response.kind = "SyncedLyrics" /\ response.synced = item.synced_lyrics[1]
      [] item.synced_lyrics = None /\ item.plain_lyrics # None ->
            response = UnsyncedLyrics(item.plain_lyrics[1])
      [] item.synced_lyrics = None /\ item.plain_lyrics = None /\ item.instrumental ->
            response = IsInstrumental
      [] OTHER -> response = ResponseNone

FieldSelected ==
    /\ exactRes = GetOk(ResponseNone)
    /\ cfg.duration_tolerance > 0
    /\ fieldSel.asked
    /\ fieldSel.item # None

\* C3 as stated: whenever the ranking selects a candidate from the
\* field-based search, whatever it carries, the call applies it and returns
\* source DurationFallback with the converted result, without going on to
\* the fuzzy tier.
C3_EverySelectedIsApplied ==
    FieldSelected =>
        /\ pc = "done"
        /\ ~Issued("search_q")
        /\ \/ WriteFailed
           \/ /\ result.state = "ok"
              /\ result.source = "DurationFallback"
              /\ ClaimConverted(result.response, fieldSel.item[1])

\* C3 amended: a selected candidate that carries synced lyrics, plain lyrics
\* or the instrumental flag is applied and returned with source
\* DurationFallback and the converted result, without the fuzzy tier; a
\* selected candidate with none of them is never returned as
\* DurationFallback: the call goes on as if nothing had been selected.
C3_UsableSelectedIsApplied ==
    FieldSelected =>
        IF ClaimUnusable(fieldSel.item[1])
        THEN /\ result.source # "DurationFallback"
             /\ cfg.fuzzy_search_enabled => Issued("search_q")
             /\ (~cfg.fuzzy_search_enabled /\ pc = "done") =>
                   result = Ok(ResponseNone, "None")
        ELSE /\ pc = "done"
             /\ ~Issued("search_q")
             /\ \/ WriteFailed
                \/ /\ result.state = "ok"
                   /\ result.source = "DurationFallback"
                   /\ ClaimConverted(result.response, fieldSel.item[1])
                   /\ calls # <<>>
                   /\ calls[1].text = IF result.response.kind = "SyncedLyrics"
                                      THEN result.response.synced
                                      ELSE IF result.response.kind = "UnsyncedLyrics"
                                      THEN result.response.plain
                                      ELSE INSTRUMENTAL_MARKER

\* the field-based search returned one candidate with only plain lyrics,
\* one second off, and the call returned it as Unsynced, DurationFallback
C3_Witness ==
    /\ FieldSelected
    /\ fieldSel.item[1].duration = Some(11)
    /\ fieldSel.item[1].synced_lyrics = None
    /\ pc = "done"
    /\ result = Ok(UnsyncedLyrics(<<"W">>), "DurationFallback")
    /\ txt = write(NoFile, <<"W">>)

\* the candidate is excluded from the fuzzy tier
ClaimExcluded(item) ==
    \/ item.name = None
    \/ ~geq(ClaimJaccard(track.title, item.name[1]), <<3, 10>>)
    \/ ~ClaimInside(item, track.duration, cfg.duration_tolerance)

\* C8: the fuzzy tier selects a candidate only if its name is present with
\* similarity >= 0.3 against the local title and its duration lies in the
\* tolerance window; when every candidate is excluded the call returns
\* (None, None).
C8_FuzzySelectsSimilarOnly ==
    fuzzySel.asked =>
        /\ fuzzySel.item # None =>
              /\ \E i \in 1..Len(reply) : reply[i] = fuzzySel.item[1]
              /\ ~ClaimExcluded(fuzzySel.item[1])
        /\ (fuzzySel.ok /\ \A i \in 1..Len(reply) : ClaimExcluded(reply[i])) =>
              /\ fuzzySel.item = None
              /\ result = Ok(ResponseNone, "None")

\* the free-text search returned a candidate with synced lyrics inside the
\* window whose name has similarity 1/4, and the call returned (None, None)
C8_Witness ==
    /\ fuzzySel.asked
    /\ fuzzySel.ok
    /\ Len(reply) >= 1
    /\ reply[1].name = Some(<<"a", " ", "c", " ", "d">>)
    /\ reply[1].synced_lyrics # None
    /\ reply[1].duration = Some(11)
    /\ \A i \in 1..Len(reply) : ClaimExcluded(reply[i])
    /\ result = Ok(ResponseNone, "None")

----------------------------------------------------------------------------
(* Claims about the persistence writer (SpecWriter, SpecWriterAny) *)

SyncedWrites == {i \in 1..Len(calls) : calls[i].fn = "save_synced_lyrics" /\ calls[i].ok}

PlainWrites == {i \in 1..Len(calls) : calls[i].fn = "save_plain_lyrics" /\ calls[i].ok}

InstrumentalApplied ==
    /\ applied.name = "apply_lyrics_for_track"
    /\ applied.lyrics.kind = "IsInstrumental"
    /\ applied.ok

NoneApplied ==
    /\ applied.name = "apply_lyrics_for_track"
    /\ applied.lyrics.kind = "None"

\* C13 as stated: after a None result has been applied neither sidecar
\* exists, whatever existed before.
C13_NoneRemovesBoth == NoneApplied => (~txt.exists /\ ~lrc.exists)

\* C13 amended: applying a None result returns Ok with that result and
\* leaves the .txt sidecar, the .lrc sidecar and the audio file exactly as
\* they were.
C13_NoneTouchesNothing ==
    [][(ops' = ops + 1 /\ NoneApplied')
          => /\ txt' = txt
             /\ lrc' = lrc
             /\ audio' = audio
             /\ calls' = <<>>
             /\ result' = Ok(ResponseNone, "")]_vars

\* a None result applied to a track whose .lrc sidecar an earlier operation
\* had written: the sidecar is still there
C13_Witness ==
    /\ NoneApplied
    /\ ops = 2
    /\ lrc.exists
    /\ lrc.writer
    /\ lrc.content = <<"TAG", "W">>

\* the operation just run applied, and returned Ok for, the Lyrics Result
\* that the operation before it had applied and returned Ok for
AppliedAgain == applied.name = "apply_lyrics_for_track" /\ applied.again

FailedEmbeds ==
    {i \in 1..Len(calls) : calls[i].fn = "embed_lyrics" /\ calls[i].outcome = "fail"}

\* C15: when embedding is enabled and the embedding fails, the operation
\* still returns Ok, with the Lyrics Result it was given, and the sidecars
\* are exactly as the save call before the embedding wrote them.
C15_EmbedFailureIsNotAnError ==
    \A i \in FailedEmbeds :
        /\ applied.embed
        /\ i > 1
        /\ calls[i - 1].ok
        /\ txt = calls[i - 1].post.txt
        /\ lrc = calls[i - 1].post.lrc
        /\ result.state = "ok"
        /\ applied.name = "apply_lyrics_for_track" => result.response = applied.lyrics

\* synced lyrics applied to a tagged MP3 file with embedding enabled: the
\* embedding failed, the call returned Ok and the .lrc sidecar is written
C15_Witness ==
    /\ FailedEmbeds = {2}
    /\ track.file_path = <<"t", ".", "M", "p", "3">>
    /\ audio.tagged
    /\ applied.lyrics = SyncedLyrics(<<"TAG", "W">>, <<"W">>)
    /\ result = Ok(applied.lyrics, "")
    /\ lrc.writer
    /\ lrc.content = <<"TAG", "W">>
    /\ audio.synced = None

\* the path ends with the extension, letter case ignored
ClaimHasExtension(path, ext) ==
    /\ Len(path) >= Len(ext)
    /\ \A k \in 1..Len(ext) :
          to_lowercase_char(path[Len(path) - Len(ext) + k]) = ext[k]

ClaimEmbeddable(path) ==
    \/ ClaimHasExtension(path, <<".", "m", "p", "3">>)
    \/ ClaimHasExtension(path, <<".", "f", "l", "a", "c">>)

\* C16: a writer operation leaves the audio file as it was when the
\* embedding toggle is off and when the extension of the file is neither
\* .mp3 nor .flac, letter case ignored; the lyrics embedded in the file are
\* modified only with the toggle on and one of these extensions, and only
\* by an embedding that follows save calls of the same operation that all
\* returned Ok.
C16_AudioModifiedOnlyByEmbedding ==
    [][audio' # audio
          => /\ ops' = ops + 1
             /\ applied'.embed
             /\ ClaimEmbeddable(track.file_path)
             /\ Len(calls') >= 2
             /\ calls'[Len(calls')].fn = "embed_lyrics"
             /\ calls'[Len(calls')].pre = audio
             /\ calls'[Len(calls')].post = audio'
             /\ \A i \in 1..(Len(calls') - 1) :
                   calls'[i].fn # "embed_lyrics" /\ calls'[i].ok]_vars

\* plain lyrics applied to a tagged FLAC file with the toggle on: the file
\* holds them after the .txt sidecar was written
C16_Witness ==
    /\ applied.embed
    /\ applied.lyrics = UnsyncedLyrics(<<"W">>)
    /\ track.file_path = <<"t", ".", "f", "l", "a", "c">>
    /\ Len(calls) = 2
    /\ calls[1].ok
    /\ calls[2].pre.plain = None
    /\ audio.plain = Some(<<"W">>)
    /\ txt.content = <<"W">>

----------------------------------------------------------------------------
(* Claims about errors of the tiers of the resolution (Spec) *)

ExactFailed == pc \notin {"start", "exact"} /\ ~exactRes.ok

FieldSearchFailed == fieldSel.asked /\ ~fieldSel.ok

FuzzySearchFailed == fuzzySel.asked /\ ~fuzzySel.ok

\* C17: when the exact lookup or the field-based search ends in an error,
\* the call returns an error (for the exact lookup, that error) and no later
\* tier is requested; it does not return Ok((None, None)).
C17_ExactAndFieldErrorsAreReturned ==
    /\ ExactFailed
          => /\ pc = "done"
             /\ result = Err(exactRes.err)
             /\ requests = <<"get">>
    /\ FieldSearchFailed
          => /\ pc = "done"
             /\ result.state = "err"
             /\ requests = <<"get", "search_fields">>

\* C18: when the free-text search fails, the call returns Ok with the None
\* result and the source None, and the sidecars and the audio file are as
\* they were.
C18_FuzzyErrorIsAbsorbed ==
    [][(pc = "fuzzy" /\ FuzzySearchFailed')
          => /\ pc' = "done"
             /\ result' = Ok(ResponseNone, "None")
             /\ txt' = txt
             /\ lrc' = lrc
             /\ audio' = audio]_vars

\* the free-text search failed after the field-based search had found no
\* candidate: the call returned Ok((None, None)) and the .txt sidecar the
\* track had is still there
C18_Witness ==
    /\ FuzzySearchFailed
    /\ fieldSel = Found(TRUE, None)
    /\ pc = "done"
    /\ result = Ok(ResponseNone, "None")
    /\ txt = ForeignFile(<<"W", "W">>)
    /\ requests = <<"get", "search_fields", "search_q">>

----------------------------------------------------------------------------
(* Claims about the retries of the remote operations (SpecNet, SpecNetFair) *)

ClaimTransient(o) == ~o.ok /\ o.err \in {"connect", "timeout", "request"}

\* get_with_retry, at every point of a call: at most 3 sends; every send
\* before the last failed with a transient error and was followed by a sleep
\* of 1000 ms times its number; no sleep follows the send that ended the
\* call; the call ended on the first response, on the first error that is
\* not transient, or on the third transient error, and returned it.
ClaimRetry ==
    net.op \in GetOps =>
        /\ Len(net.log) <= 3
        /\ net.attempt = Len(net.log) - (IF net.pc \in {"sleep", "done"} THEN 1 ELSE 0)
        /\ \A k \in 1..(Len(net.log) - 1) : ClaimTransient(net.log[k])
        /\ Len(net.slept) = Len(net.log) - (IF net.pc = "done" THEN 1 ELSE 0)
        /\ \A k \in 1..Len(net.slept) : net.slept[k] = 1000 * k
        /\ net.pc \in {"send", "sleep"} => net.got = None
        /\ net.pc = "sleep" => ClaimTransient(net.log[Len(net.log)])
        /\ net.pc = "done"
              => /\ net.got = Some(net.log[Len(net.log)])
                 /\ ClaimTransient(net.log[Len(net.log)]) => Len(net.log) = 3
                 /\ ~net.log[Len(net.log)].ok
                       => net.outcome = NetErr(net.log[Len(net.log)].err, None)

\* C19: get_with_retry ends after at most 3 sends: a send is repeated only
\* after a transient failure (connect, timeout, request) of the send before
\* it and a sleep of 1000 ms times the number of that send (1000, then 2000,
\* none after the last); the first response is returned at once; after 3
\* transient failures the last error is returned.
C19_RetryEndsWithinThreeSends == []ClaimRetry /\ <>(net.pc = "done")

\* a search whose sends failed with a timeout, a connect error and a
\* request error, with sleeps of 1000 and 2000 ms, returned the last error
C19_Witness ==
    /\ net.op = "search"
    /\ net.pc = "done"
    /\ net.log = <<Failed("timeout"), Failed("connect"), Failed("request")>>
    /\ net.slept = <<1000, 2000>>
    /\ net.outcome = NetErr("request", None)

\* C20: request_challenge, publish and flag retry as the GET operations do:
\* a transient failure of their first send is followed by a sleep of 1000 ms
\* and a second send, and a third follows a second transient failure.
C20_PostRetriesLikeGet ==
    (net.op \in PostOps /\ net.pc = "done" /\ ClaimTransient(net.log[1]))
        => /\ Len(net.log) > 1
           /\ net.slept # <<>>
           /\ net.slept[1] = 1000
           /\ ClaimTransient(net.log[2]) => Len(net.log) = 3

----------------------------------------------------------------------------
(* Claims about the proof-of-work solver (SpecSolve) *)

\* the number a sequence of bytes stands for, most significant byte first
RECURSIVE ClaimNumber(_)
ClaimNumber(bytes) ==
    IF bytes = <<>> THEN 0
    ELSE bytes[Len(bytes)] + 256 * ClaimNumber(SubSeq(bytes, 1, Len(bytes) - 1))

\* the digest of prefix followed by the decimal string of n is <= target
ClaimMeets(prefix, target, n) ==
    ClaimNumber(hash(prefix \o to_string(n))) <= ClaimNumber(decode(target))

\* C21: the solver returns the least nonce n >= 0 whose digest, the digest
\* of prefix followed by the decimal string of n, is <= target: the digest
\* of the returned nonce meets the target and the digest of no smaller nonce
\* does; while no nonce up to MaxNonce meets it, the solver has not returned.
C21_SolverReturnsLeastNonce ==
    pow.called =>
        IF pow.nonce = None
        THEN \A n \in 0..MaxNonce : ~ClaimMeets(pow.prefix, pow.target, n)
        ELSE /\ ClaimMeets(pow.prefix, pow.target, pow.nonce[1])
             /\ \A n \in 0..(pow.nonce[1] - 1) : ~ClaimMeets(pow.prefix, pow.target, n)

\* the challenge ("q1", 00a0): the digests of nonces 0, 1 and 2 begin with
\* bytes 18, 10 and 4; the digest of nonce 3 is 00 6c, and 3 is returned
C21_Witness ==
    /\ pow.called
    /\ pow.prefix = <<"q", "1">>
    /\ pow.target = <<"0", "0", "a", "0">>
    /\ pow.nonce = Some(3)
    /\ encode(hash(pow.prefix \o to_string(3))) = <<"0", "0", "6", "c">>
    /\ hash(pow.prefix \o to_string(2))[1] = 4

----------------------------------------------------------------------------
(* Claims about publish_lyrics and flag_lyrics (SpecFlow) *)

Sends == {i \in 1..Len(flow.log) : flow.log[i].ev \in {"publish", "flag"}}

\* the events of the run of event i that come before it
ClaimBefore(i, ev) == {j \in 1..(i - 1) : flow.log[j].ev = ev /\ flow.log[j].run = flow.log[i].run}

\* C22: in every execution of publish_lyrics and of flag_lyrics the solver
\* starts only after the challenge was received; the publish or flag request
\* is sent only after the solver returned, with the token prefix:nonce of
\* the prefix of the challenge of that execution and the nonce solved for
\* that challenge; it is the only request with that challenge; and no
\* publish or flag request is sent when the challenge request failed.
C22_ChallengeThenSolveThenSend ==
    /\ \A i \in 1..Len(flow.log) :
          flow.log[i].ev = "solve"
             => \E j \in ClaimBefore(i, "challenge") :
                   flow.log[j].challenge = flow.log[i].challenge
    /\ \A i \in Sends :
          /\ flow.log[i].ev = (IF flow.command = "publish_lyrics" THEN "publish" ELSE "flag")
                \/ flow.log[i].run < flow.runs
          /\ ClaimBefore(i, "challenge_failed") = {}
          /\ \E r \in ClaimBefore(i, "request_challenge"), c \in ClaimBefore(i, "challenge"),
                s \in ClaimBefore(i, "solve"), d \in ClaimBefore(i, "solved") :
                /\ r < c /\ c < s /\ s < d
                /\ flow.log[d].challenge = flow.log[c].challenge
                /\ flow.log[i].token = flow.log[c].challenge[1].prefix \o <<":">>
                                          \o to_string(flow.log[d].nonce[1])
                /\ ClaimMeets(flow.log[c].challenge[1].prefix,
                              flow.log[c].challenge[1].target, flow.log[d].nonce[1])
          /\ \A k \in Sends : flow.log[k].run = flow.log[i].run => k = i

\* two commands, the second a flag_lyrics that sent its request with the
\* token of the second challenge after a publish_lyrics had sent its own
C22_Witness ==
    /\ flow.runs = 2
    /\ flow.command = "flag_lyrics"
    /\ flow.pc = "done"
    /\ flow.returned = "ok"
    /\ Cardinality(Sends) = 2
    /\ flow.log[Len(flow.log)].ev = "flag"
    /\ flow.log[Len(flow.log)].token = <<"q", "1", ":", "3">>
    /\ flow.challenge_response[1].serial = 2

----------------------------------------------------------------------------
(* Claims about the catalog (SpecDb) *)

\* C23: in every catalog state a row marked instrumental has no plain text
\* and no synced text other than "[au: instrumental]", and the
\* lyrics_status of a row is 'instrumental' exactly when its instrumental
\* flag is true.
C23_InstrumentalRowsHoldNoLyrics ==
    \A id \in 1..Len(db) :
        /\ db[id].instrumental
              => /\ db[id].txt_lyrics = None
                 /\ db[id].lrc_lyrics \in {None, Some(<<"[au: instrumental]">>)}
        /\ db[id].lyrics_status = "instrumental" <=> db[id].instrumental

----------------------------------------------------------------------------
(* Claims about concurrent writer operations (SpecPair) *)

\* both operations have returned
PairDone ==
    /\ pair.pc = "run"
    /\ \A i \in 1..2 :
          pair.tracks[i].at > Len(fs_calls(pair.tracks[i].file_path,
                                           pair.tracks[i].lyrics, pair.tracks[i].w))

\* the sidecars of track i are as its operation, run alone on the initial
\* files, leaves them
ClaimAsAlone(i) ==
    LET t == pair.tracks[i]
        alone == apply_lyrics_for_track(pair.fs0[build_txt_path(t.file_path)],
                                        pair.fs0[build_lrc_path(t.file_path)],
                                        Audio(FALSE, None, None), t.file_path,
                                        t.lyrics, FALSE, t.w, "ok")
    IN  /\ pair.fs[build_txt_path(t.file_path)] = alone.txt
        /\ pair.fs[build_lrc_path(t.file_path)] = alone.lrc

\* C24 as stated: for two tracks with distinct audio file paths, after
\* every interleaving of the steps of their operations the sidecars of each
\* track are as the operation of that track, run alone, leaves them.
C24_DistinctPathsIndependent == PairDone => (ClaimAsAlone(1) /\ ClaimAsAlone(2))

ClaimDistinctSidecars ==
    file_stem(pair.tracks[1].file_path) # file_stem(pair.tracks[2].file_path)

\* C24 amended: for two tracks whose audio file paths differ in more than
\* the extension, so that their sidecar paths are distinct, after every
\* interleaving the sidecars of each track are as the operation of that
\* track, run alone, leaves them.
C24_DistinctSidecarsIndependent ==
    (PairDone /\ ClaimDistinctSidecars) => (ClaimAsAlone(1) /\ ClaimAsAlone(2))

\* plain lyrics for t.mp3 and synced lyrics for u.mp3, all four sidecars
\* present before: t has the .txt sidecar only, u the .lrc sidecar only
C24_Witness ==
    /\ PairDone
    /\ pair.tracks[1].file_path = <<"t", ".", "m", "p", "3">>
    /\ pair.tracks[2].file_path = <<"u", ".", "m", "p", "3">>
    /\ pair.tracks[1].lyrics = UnsyncedLyrics(<<"W">>)
    /\ pair.tracks[2].lyrics = SyncedLyrics(<<"TAG", "W">>, <<"W">>)
    /\ pair.fs0[<<"t", ".", "l", "r", "c">>].exists
    /\ pair.fs[<<"t", ".", "t", "x", "t">>].content = <<"W">>
    /\ ~pair.fs[<<"t", ".", "l", "r", "c">>].exists
    /\ pair.fs[<<"u", ".", "l", "r", "c">>].content = <<"TAG", "W">>
    /\ ~pair.fs[<<"u", ".", "t", "x", "t">>].exists

----------------------------------------------------------------------------
(* Claims about the winner among equal candidates (SpecRank) *)

\* positions of the candidates inside the window whose (score, distance)
\* is the least of the window
ClaimBest ==
    {i \in 1..Len(rank.results) :
        /\ in_window(rank.results[i], rank.duration, rank.duration_tolerance)
        /\ \A j \in 1..Len(rank.results) :
              in_window(rank.results[j], rank.duration, rank.duration_tolerance) =>
                 \/ score(rank.results[i]) < score(rank.results[j])
                 \/ /\ score(rank.results[i]) = score(rank.results[j])
                    /\ distance(rank.results[i], rank.duration)
                          <= distance(rank.results[j], rank.duration)}

\* C25: among the candidates of the window that share the least (score,
\* distance), the one that comes first in the order of the remote's reply
\* is the winner; the same reply always gives the same winner.
C25_FirstOfEqualCandidatesWins ==
    (rank.called /\ ClaimBest # {}) =>
        rank.winner = Some(rank.results[CHOOSE i \in ClaimBest : \A j \in ClaimBest : i <= j])

\* two candidates with synced lyrics, one second below and one second
\* above the target: the first is the winner
C25_Witness ==
    /\ rank.called
    /\ ClaimBest = {1, 2}
    /\ rank.results[1] # rank.results[2]
    /\ rank.results[1].duration = Some(9)
    /\ rank.results[2].duration = Some(11)
    /\ is_some(rank.results[1].synced_lyrics)
    /\ rank.winner = Some(rank.results[1])

----------------------------------------------------------------------------
(* Claims about responses of the remote (SpecNet) *)

\* no send of the call came after a send that returned a response
ClaimNoSendAfterResponse == \A i \in 1..(Len(net.log) - 1) : ~net.log[i].ok

\* the call returned on a response with status 400, 500 or 503
ClaimRejected ==
    /\ net.pc = "done"
    /\ net.got # None
    /\ net.got[1].ok
    /\ net.got[1].status \in {400, 500, 503}

\* the error returned is the error object of the body, field by field
ClaimBodyReturned ==
    /\ net.body[1].kind = "error"
    /\ net.outcome =
          ResponseError(net.body[1].statusCode, net.body[1].error, net.body[1].message)

\* C26 as stated: a call is never sent again after a response of any
\* status, and on status 400, 500 or 503 the error returned is the parsed
\* error body (statusCode, error, message) of the remote, unchanged.
C26_ResponseEndsCallWithRemoteError ==
    /\ ClaimNoSendAfterResponse
    /\ ClaimRejected => ClaimBodyReturned

\* C26 amended: a call is never sent again after a response of any status;
\* on status 400, 500 or 503 with a body that is the error object of the
\* remote the error returned is that object unchanged, and with any other
\* body it is the decoding error of the body.
C26_ResponseEndsCallWithBodyOrDecodeError ==
    /\ ClaimNoSendAfterResponse
    /\ ClaimRejected =>
          IF net.body[1].kind = "error" THEN ClaimBodyReturned
          ELSE net.outcome = NetErr("decode", None)

\* a search fails to connect, is sent again and answered with 503 and the
\* error object {statusCode: 400, error, message}
C26_Witness ==
    /\ net.op = "search"
    /\ net.pc = "done"
    /\ net.log = <<Failed("connect"), Received(503)>>
    /\ net.body = Some(Body("error", Some(400), "TrackNotFound", "m1"))
    /\ net.outcome = ResponseError(Some(400), "TrackNotFound", "m1")

\* the call returned on a response
ClaimAnswered == net.pc = "done" /\ net.got # None /\ net.got[1].ok

\* the outcome the claim gives to a status of an operation
ClaimOutcomeOf(op, status) ==
    IF op \in {"search", "get_by_id", "request_challenge"} /\ status = 200 THEN "success"
    ELSE IF op \in {"publish", "flag"} /\ status = 201 THEN "success"
    ELSE IF status \in {400, 500, 503} THEN "rejection"
    ELSE IF op = "get_by_id" /\ status = 404 THEN "not-found"
    ELSE "UnknownError"

\* the outcome the call returned
ClaimOutcome ==
    IF net.outcome = NetOk("None") THEN "not-found"
    ELSE IF net.outcome.state = "ok" THEN "success"
    ELSE IF net.outcome = ResponseError(None, "UnknownError", "Unknown error happened")
    THEN "UnknownError"
    ELSE IF net.outcome =
               ResponseError(net.body[1].statusCode, net.body[1].error, net.body[1].message)
    THEN "rejection"
    ELSE "decode"

ClaimUnreadable ==
    \/ /\ net.op \in {"search", "get_by_id", "request_challenge"}
       /\ net.got[1].status = 200
       /\ net.body[1].kind # "payload"
    \/ /\ net.got[1].status \in {400, 500, 503}
       /\ net.body[1].kind # "error"

----------------------------------------------------------------------------
(* Claims about the source reported with a result (Spec) *)

\* C28: in every successful return of download_lyrics_for_track the source
\* is None if and only if the lyrics result is None; Exact,
\* DurationFallback and FuzzyFallback come with synced lyrics, unsynced
\* lyrics or the instrumental result only.
C28_SourceNoneIffResultNone ==
    result.state = "ok" =>
        /\ result.source = "None" <=> result.response.kind = "None"
        /\ result.source \in {"Exact", "DurationFallback", "FuzzyFallback"} =>
              result.response.kind \in {"SyncedLyrics", "UnsyncedLyrics", "IsInstrumental"}

\* the free-text search replied with candidates, the fuzzy tier selected
\* none of them and the call returned None with source None
C28_Witness ==
    /\ result.state = "ok"
    /\ fuzzySel.asked
    /\ fuzzySel.ok
    /\ fuzzySel.item = None
    /\ reply # <<>>
    /\ result.source = "None"
    /\ result.response.kind = "None"

----------------------------------------------------------------------------
(* Claims about the download_lyrics command (SpecCmd) *)

\* the kind of lyrics the sidecars on disk hold
ClaimSidecarKind ==
    IF lrc.exists THEN (IF lrc.content = INSTRUMENTAL_MARKER THEN "instrumental" ELSE "synced")
    ELSE IF txt.exists THEN "plain"
    ELSE "missing"

\* the row and the sidecars hold the same kind of lyrics and the same text
ClaimAgree ==
    /\ db[1].lyrics_status = ClaimSidecarKind
    /\ db[1].lyrics_status = "synced" => db[1].lrc_lyrics = Some(lrc.content)
    /\ db[1].lyrics_status = "plain" => db[1].txt_lyrics = Some(txt.content)

ClaimSkipped ==
    cmd.returned \in {"Skipped: already has synced lyrics",
                      "Skipped: already has plain lyrics, no synced available"}

\* C29: whenever the download_lyrics command has returned Ok, the row of
\* the track and its sidecars agree in the kind of lyrics and in the text,
\* and a command that reports Skipped has changed neither the row nor
\* the sidecars.
C29_CatalogAndSidecarsAgree ==
    (cmd.pc = "returned" /\ cmd.ok) =>
        /\ ClaimAgree
        /\ ClaimSkipped =>
              /\ db[1] = cmd.row0
              /\ txt.exists = cmd.txt0.exists /\ txt.content = cmd.txt0.content
              /\ lrc.exists = cmd.lrc0.exists /\ lrc.content = cmd.lrc0.content

----------------------------------------------------------------------------
(* Claims about the shared connection (SpecLib) *)

\* command p returns in this step
ClaimReturns(p) == lib.procs[p].pc # "returned" /\ lib'.procs[p].pc = "returned"

\* C30: when initialize_library or refresh_library returns after it took
\* the connection, whether the library operation succeeded, failed or its
\* blocking task aborted, the slot holds the connection again; and a
\* command that runs while the slot is empty fails with 'Database not
\* initialized'.
C30_ConnectionIsPutBack ==
    [][\A p \in 1..2 :
          /\ (lib.procs[p].pc = "blocking" /\ ClaimReturns(p)) => lib'.slot = Some("conn")
          /\ (lib.procs[p].pc # "blocking" /\ lib.slot = None
                /\ lib'.procs[p] # lib.procs[p]) =>
                   /\ lib'.procs[p].pc = "returned"
                   /\ lib'.procs[p].returned = "Database not initialized"
                   /\ lib'.slot = None]_vars

====
